---- MODULE Spec2Model ----
(***************************************************************************)
(* Model of the chunk splitter (src/src/chunking.rs), of the rate limiter  *)
(* and the context generation around it (src/src/context.rs), of           *)
(* normalize_whitespace (src/src/document.rs) and of main and process_file *)
(* (src/src/main.rs, rag.rs, embeddings.rs, database.rs) of llm-rag-play.  *)
(*                                                                         *)
(* A text is a sequence of one-character strings.  split_into_chunks is    *)
(* modelled as a small-step machine over an explicit call stack, one frame *)
(* per (possibly nested) invocation, so that the recursion of its          *)
(* post-pass is part of the state.                                         *)
(***************************************************************************)
EXTENDS Integers, Sequences, FiniteSets, TLC

VARIABLES
    input,      \* the text handed to the top-level split_into_chunks call
    stack,      \* call stack of split_into_chunks, innermost frame last
    pc,         \* "run" | "done" | "overflow" (fatal stack overflow)
    result,     \* the Vec<TextChunk> returned by the top-level call
    resplits,   \* number of nested split_into_chunks calls made so far
    max_rpm,            \* RateLimiter.max_rpm
    max_tpm,            \* RateLimiter.max_tpm
    request_timestamps, \* RateLimiter.request_timestamps
    token_counts,       \* RateLimiter.token_counts
    mutex,              \* holder of the Mutex<RateLimiter>, 0 when free
    clock,              \* Instant::now(), in milliseconds
    callers,            \* locals of each generate_context_with_flash_lite call
    checks,             \* record of the check_and_update calls completed
    external_calls,     \* record of the external generation calls started
    ticks,              \* number of free time steps taken
    source_document,    \* contextualize_chunks: the source_document argument
    batch,              \* contextualize_chunks: the chunks argument
    position,           \* contextualize_chunks: index of the chunk at hand
    contextualized_chunks, \* contextualize_chunks: the local result vector
    outcome,            \* what contextualize_chunks has returned, if it has
    failures,           \* record of the external generation calls that failed
    text_in,            \* the text a function of texts is applied to
    estimated,          \* estimate_token_count(text_in), once it has returned
    normalized,         \* normalize_whitespace(text_in), once it has returned
    content,            \* main: the text of the file named on the command line
    collections,        \* Qdrant: the points of every collection there is
    stage,              \* main and process_file: the step about to be made
    contextual_embeddings, \* get_contextual_embeddings: the local vector
    handed,             \* what store_chunks was called with, if it was
    runs                \* record of the runs of main that have ended

chunkVars == <<input, stack, pc, result, resplits>>

limiterVars == <<max_rpm, max_tpm, request_timestamps, token_counts, mutex,
                 clock, callers, checks, external_calls, ticks>>

enrichVars == <<source_document, batch, position, contextualized_chunks,
                outcome, failures>>

textVars == <<text_in, estimated, normalized>>

processVars == <<content, collections, stage, contextual_embeddings, handed,
                 runs>>

vars == <<chunkVars, limiterVars, enrichVars, textVars, processVars>>

-----------------------------------------------------------------------------
(* Characters and strings                                                  *)

NL == "\n"
SP == " "

\* char::is_whitespace, restricted to the characters of the model alphabet
IsWhitespace(c) == c \in {" ", "\n", "\t", "\r"}

\* char::is_ascii_punctuation (the quote characters and the backslash are
\* not in the alphabet of the model)
IsAsciiPunctuation(c) ==
    c \in {"!", "#", "$", "%", "&", "(", ")", "*", "+", ",", "-",
           ".", "/", ":", ";", "<", "=", ">", "?", "@", "[", "]", "^",
           "_", "{", "|", "}", "~"}

SetMin(S) == CHOOSE x \in S : \A y \in S : x <= y

Rep(c, n) == [i \in 1..n |-> c]

\* str::trim
trim(t) ==
    LET N == {i \in 1..Len(t) : ~IsWhitespace(t[i])}
    IN  IF N = {} THEN <<>>
        ELSE SubSeq(t, SetMin(N), 0 - SetMin({0 - i : i \in N}))

\* str::find: byte offset of the first occurrence, None as -1
find(t, pat) ==
    LET m == Len(pat)
        M == {i \in 1..(Len(t) - m + 1) :
                \A k \in 1..m : t[i + k - 1] = pat[k]}
    IN  IF M = {} THEN 0 - 1 ELSE SetMin(M) - 1

ends_with(t, pat) ==
    /\ Len(t) >= Len(pat)
    /\ SubSeq(t, Len(t) - Len(pat) + 1, Len(t)) = pat

-----------------------------------------------------------------------------
(* chunking.rs                                                             *)

TARGET_TOKENS == 500
OVERLAP_TOKENS == 50

\* estimate_token_count with the words split at single spaces
estimate_token_count_split_space(t) ==
    LET words == Cardinality({i \in 1..Len(t) : t[i] = SP}) + 1
        punctuation == Cardinality({i \in 1..Len(t) : IsAsciiPunctuation(t[i])})
    IN  words + punctuation

\* estimate_token_count: words plus punctuation
estimate_token_count(t) ==
    LET words == Cardinality({i \in 1..Len(t) :
                     /\ ~IsWhitespace(t[i])
                     /\ (i = 1 \/ IsWhitespace(t[i - 1]))})
        punctuation == Cardinality({i \in 1..Len(t) : IsAsciiPunctuation(t[i])})
    IN  words + punctuation

\* text.split("\n\n"): non-overlapping matches, scanned left to right
RECURSIVE SplitBlankLines(_)
SplitBlankLines(t) ==
    LET M == {i \in 1..(Len(t) - 1) : t[i] = NL /\ t[i + 1] = NL}
    IN  IF M = {} THEN <<t>>
        ELSE LET i == SetMin(M)
             IN  <<SubSeq(t, 1, i - 1)>> \o SplitBlankLines(SubSeq(t, i + 2, Len(t)))

NonBlank(p) == trim(p) # <<>>

\* the paragraphs vector
Paragraphs(t) == SelectSeq(SplitBlankLines(t), NonBlank)

\* the closure of paragraph.split(|c| ".!?\n".contains(c))
IsSentenceEnd(c) == c \in {".", "!", "?", "\n"}

\* One item of the split iterator over the rest of an oversized paragraph:
\* the fragment up to the next terminator, what is left after it, and
\* whether the iterator has more items.
NextFragment(rest) ==
    LET D == {i \in 1..Len(rest) : IsSentenceEnd(rest[i])}
    IN  IF D = {}
        THEN [frag |-> rest, rest |-> <<>>, more |-> FALSE]
        ELSE LET d == SetMin(D)
             IN  [frag |-> SubSeq(rest, 1, d - 1),
                  rest |-> SubSeq(rest, d + 1, Len(rest)),
                  more |-> TRUE]

\* lines 49-61: the sentences of an oversized paragraph, trimmed, blank
\* fragments left out
RECURSIVE SentencesOf(_)
SentencesOf(rest) ==
    LET n == NextFragment(rest)
        here == IF trim(n.frag) = <<>> THEN <<>> ELSE <<trim(n.frag)>>
    IN  IF n.more THEN here \o SentencesOf(n.rest) ELSE here

\* OverlapChars with the tokens taken for characters
OverlapCharsAsTokens == OVERLAP_TOKENS

\* buffer[overlap_start..].trim(): the last OVERLAP_TOKENS * 4 characters
OverlapChars == OVERLAP_TOKENS * 4

\* Overlap that carries nothing over
OverlapDropped(buffer) == <<>>

Overlap(buffer) ==
    LET n == Len(buffer)
        skip == IF n > OverlapChars THEN n - OverlapChars ELSE 0
    IN  trim(SubSeq(buffer, skip + 1, n))

\* text.find(&buffer).unwrap_or(0)
StartPosition(text, buffer) ==
    LET p == find(text, buffer) IN IF p < 0 THEN 0 ELSE p

\* TextChunk that loses the document_id
TextChunkAnonymous(text, token_count, document_id, start_position, paras) ==
    [text |-> text, token_count |-> token_count, document_id |-> "",
     start_position |-> start_position, paras |-> paras]

\* TextChunk; paras is the set of paragraphs (indices in the frame's
\* paragraphs vector) the chunk was built from, kept for the claims.
TextChunk(text, token_count, document_id, start_position, paras) ==
    [text |-> text, token_count |-> token_count, document_id |-> document_id,
     start_position |-> start_position, paras |-> paras]

\* the locals of one split_into_chunks(text, file_name) call at its start
NewFrame(text, file_name, origin) ==
    [text |-> text, file_name |-> file_name,
     paragraphs |-> Paragraphs(text), pi |-> 1,
     chunks |-> <<>>, current_chunk |-> <<>>, current_token_count |-> 0,
     cur_paras |-> {},
     phase |-> "para",
     srest |-> <<>>, smore |-> FALSE,
     sentence_buffer |-> <<>>, buffer_token_count |-> 0,
     final_chunks |-> <<>>, ci |-> 1,
     origin |-> origin]

Depth == Len(stack)
Top == stack[Depth]
SetTop(f) == [stack EXCEPT ![Depth] = f]

\* lines 115-152: an ordinary paragraph (index pi of the frame) is appended
\* to current_chunk, after closing current_chunk with an overlap when the
\* paragraph would push it over TARGET_TOKENS
AccumulateParagraph(f, paragraph, paragraph_token_count) ==
    LET closing == /\ f.current_token_count + paragraph_token_count > TARGET_TOKENS
                   /\ f.current_chunk # <<>>
        chunks1 == IF closing
                   THEN Append(f.chunks,
                               TextChunk(f.current_chunk, f.current_token_count,
                                         f.file_name,
                                         StartPosition(f.text, f.current_chunk),
                                         f.cur_paras))
                   ELSE f.chunks
        seed    == IF closing THEN Overlap(f.current_chunk) ELSE f.current_chunk
        count1  == IF closing THEN estimate_token_count(seed)
                   ELSE f.current_token_count
        chunk1  == IF closing /\ seed # <<>> THEN seed \o <<NL, NL>> ELSE seed
        chunk2  == IF chunk1 # <<>> /\ ~ends_with(chunk1, <<NL, NL>>)
                   THEN chunk1 \o <<NL, NL>> ELSE chunk1
    IN  [f EXCEPT !.chunks = chunks1,
                  !.current_chunk = chunk2 \o paragraph,
                  !.current_token_count = count1 + paragraph_token_count,
                  !.cur_paras = (IF closing THEN {} ELSE f.cur_paras) \cup {f.pi},
                  !.pi = f.pi + 1]

\* AddSentence without the token of the period it appends
AddSentencePeriodUncounted(f, sentence) ==
    LET sentence_token_count == estimate_token_count(sentence)
        closing == /\ f.buffer_token_count + sentence_token_count > TARGET_TOKENS
                   /\ f.sentence_buffer # <<>>
        chunks1 == IF closing
                   THEN Append(f.chunks,
                               TextChunk(f.sentence_buffer, f.buffer_token_count,
                                         f.file_name,
                                         StartPosition(f.text, f.sentence_buffer),
                                         {f.pi}))
                   ELSE f.chunks
        seed    == IF closing THEN Overlap(f.sentence_buffer) ELSE f.sentence_buffer
        count1  == IF closing THEN estimate_token_count(seed)
                   ELSE f.buffer_token_count
        buffer1 == IF seed # <<>> THEN Append(seed, SP) ELSE seed
    IN  [f EXCEPT !.chunks = chunks1,
                  !.sentence_buffer = Append(buffer1 \o sentence, "."),
                  !.buffer_token_count = count1 + sentence_token_count]

\* lines 63-100: one sentence (trimmed, not empty) of an oversized paragraph
\* is appended to sentence_buffer, after closing the buffer with an overlap
\* when the sentence would push it over TARGET_TOKENS
AddSentence(f, sentence) ==
    LET sentence_token_count == estimate_token_count(sentence)
        closing == /\ f.buffer_token_count + sentence_token_count > TARGET_TOKENS
                   /\ f.sentence_buffer # <<>>
        chunks1 == IF closing
                   THEN Append(f.chunks,
                               TextChunk(f.sentence_buffer, f.buffer_token_count,
                                         f.file_name,
                                         StartPosition(f.text, f.sentence_buffer),
                                         {f.pi}))
                   ELSE f.chunks
        seed    == IF closing THEN Overlap(f.sentence_buffer) ELSE f.sentence_buffer
        count1  == IF closing THEN estimate_token_count(seed)
                   ELSE f.buffer_token_count
        buffer1 == IF seed # <<>> THEN Append(seed, SP) ELSE seed
    IN  [f EXCEPT !.chunks = chunks1,
                  !.sentence_buffer = Append(buffer1 \o sentence, "."),
                  !.buffer_token_count = count1 + sentence_token_count + 1]

\* TooLarge with a wrong threshold
TooLargeAtFour(chunk) == chunk.token_count > TARGET_TOKENS * 4

\* line 170: the post-pass re-splits a chunk that is still too large
TooLarge(chunk) == chunk.token_count > TARGET_TOKENS * 3

-----------------------------------------------------------------------------
(* The documents split_into_chunks is run on                               *)

MaxParagraphs == 2   \* paragraphs of a document
MaxDepth == 4        \* nested split_into_chunks calls followed

DocumentId == "doc"

Commas(n) == Rep(",", n)

\* "ab c."
Small == <<"a", "b", SP, "c", ".">>
\* one paragraph of 300 tokens, under TARGET_TOKENS
Medium == <<"m", SP>> \o Commas(298)
\* one paragraph of six sentences of 100 tokens each, ended by . ! ? and \n
Sentences ==
    Commas(99) \o <<".", SP>> \o Commas(99) \o <<"!", SP>> \o
    Commas(99) \o <<"?">> \o Commas(99) \o <<NL>> \o
    Commas(99) \o <<".", SP>> \o Commas(99) \o <<".">>
\* one sentence of 601 tokens
LongSentence == <<"x", SP>> \o Commas(599)
\* one sentence of 1501 tokens without any delimiter
HugeSentence == Commas(1500)
\* two short sentences, the second 197 characters long, then one sentence
\* of 1496 tokens
TailThenLong == <<"a", ".", SP>> \o Rep("b", 197) \o <<".", SP>> \o Commas(1495)
\* a paragraph of spaces
Blank == <<SP, SP>>

Blocks == {Small, Medium, Sentences, LongSentence, HugeSentence, TailThenLong, Blank}

RECURSIVE JoinBlankLines(_)
JoinBlankLines(ps) ==
    IF ps = <<>> THEN <<>>
    ELSE IF Len(ps) = 1 THEN ps[1]
    ELSE ps[1] \o <<NL, NL>> \o JoinBlankLines(Tail(ps))

\* pattern, n times over
Repeat(pattern, n) ==
    [i \in 1..(n * Len(pattern)) |-> pattern[((i - 1) % Len(pattern)) + 1]]

\* single paragraphs of short sentences, of just over 1500 tokens:
\* "A. B. C. " 251 times over, and sentences of several words, ended by
\* . ! ? and \n, 137 times over
ShortSentenceDocuments ==
    {Repeat(<<"A", ".", SP, "B", ".", SP, "C", ".", SP>>, 251),
     Repeat(<<"A", "b", SP, "c", "d", ",", SP, "e", "f", "!", SP,
              "G", "?", NL, "H", "i", ";", SP, "j", "k", ".", SP>>, 137)}

\* texts of white space and blank lines only
WhitespaceDocuments ==
    {<<NL>>, <<SP, NL, NL, NL, "\t">>, <<NL, NL, NL, NL, SP>>}

\* an oversized paragraph between two ordinary ones; a short paragraph
\* before one of 499 tokens; a short sentence before one of 600 tokens
MixedDocuments ==
    {JoinBlankLines(<<Small, Sentences, Medium>>),
     JoinBlankLines(<<Small, Commas(499)>>),
     <<"a", ".", SP>> \o Commas(600)}

Documents ==
    {JoinBlankLines(ps) : ps \in UNION {[1..n -> Blocks] : n \in 0..MaxParagraphs}}
    \cup ShortSentenceDocuments \cup WhitespaceDocuments \cup MixedDocuments

-----------------------------------------------------------------------------
(* split_into_chunks, step by step                                         *)

\* lines 40-47, 113-153: the next paragraph is an ordinary one
ParagraphStep ==
    /\ pc = "run"
    /\ Top.phase = "para"
    /\ Top.pi <= Len(Top.paragraphs)
    /\ LET paragraph == trim(Top.paragraphs[Top.pi])
           paragraph_token_count == estimate_token_count(paragraph)
       IN  /\ ~(paragraph_token_count > TARGET_TOKENS)
           /\ stack' = SetTop(AccumulateParagraph(Top, paragraph, paragraph_token_count))
    /\ UNCHANGED <<input, pc, result, resplits, limiterVars, enrichVars, textVars, processVars>>

\* lines 40-55: the next paragraph is oversized and is split into sentences
EnterSentenceMode ==
    /\ pc = "run"
    /\ Top.phase = "para"
    /\ Top.pi <= Len(Top.paragraphs)
    /\ LET paragraph == trim(Top.paragraphs[Top.pi])
       IN  /\ estimate_token_count(paragraph) > TARGET_TOKENS
           /\ stack' = SetTop([Top EXCEPT !.phase = "sent",
                                          !.srest = paragraph,
                                          !.smore = TRUE,
                                          !.sentence_buffer = <<>>,
                                          !.buffer_token_count = 0])
    /\ UNCHANGED <<input, pc, result, resplits, limiterVars, enrichVars, textVars, processVars>>

\* lines 49-101: one fragment of the sentence split; blank fragments are
\* filtered out (lines 51, 59-61)
SentenceStep ==
    /\ pc = "run"
    /\ Top.phase = "sent"
    /\ Top.smore
    /\ LET n == NextFragment(Top.srest)
           sentence == trim(n.frag)
           f == [Top EXCEPT !.srest = n.rest, !.smore = n.more]
       IN  stack' = SetTop(IF sentence = <<>> THEN f ELSE AddSentence(f, sentence))
    /\ UNCHANGED <<input, pc, result, resplits, limiterVars, enrichVars, textVars, processVars>>

\* lines 103-112: the sentences are used up, the rest of the buffer is a chunk
SentenceFlush ==
    /\ pc = "run"
    /\ Top.phase = "sent"
    /\ ~Top.smore
    /\ LET f == Top
           chunks1 == IF f.sentence_buffer # <<>>
                      THEN Append(f.chunks,
                                  TextChunk(f.sentence_buffer, f.buffer_token_count,
                                            f.file_name,
                                            StartPosition(f.text, f.sentence_buffer),
                                            {f.pi}))
                      ELSE f.chunks
       IN  stack' = SetTop([f EXCEPT !.chunks = chunks1,
                                     !.sentence_buffer = <<>>,
                                     !.buffer_token_count = 0,
                                     !.phase = "para",
                                     !.pi = f.pi + 1])
    /\ UNCHANGED <<input, pc, result, resplits, limiterVars, enrichVars, textVars, processVars>>

\* FlushCurrent without the push of lines 159-164
FlushCurrentForgotten(f) == f.chunks

\* FlushCurrent without the test of line 157
FlushCurrentAlways(f) ==
    Append(f.chunks,
           TextChunk(f.current_chunk, f.current_token_count, f.file_name,
                     StartPosition(f.text, f.current_chunk), f.cur_paras))

\* lines 156-165: the chunks once the last current_chunk is added
FlushCurrent(f) ==
    IF trim(f.current_chunk) # <<>>
    THEN Append(f.chunks,
                TextChunk(f.current_chunk, f.current_token_count, f.file_name,
                          StartPosition(f.text, f.current_chunk), f.cur_paras))
    ELSE f.chunks

\* lines 156-168: the paragraphs are used up, the last chunk is added and
\* the post-pass starts
FinalFlush ==
    /\ pc = "run"
    /\ Top.phase = "para"
    /\ Top.pi > Len(Top.paragraphs)
    /\ stack' = SetTop([Top EXCEPT !.chunks = FlushCurrent(Top),
                                   !.current_chunk = <<>>,
                                   !.phase = "post",
                                   !.ci = 1])
    /\ UNCHANGED <<input, pc, result, resplits, limiterVars, enrichVars, textVars, processVars>>

\* lines 169-170, 185-187: a chunk within the limit is kept
PostKeep ==
    /\ pc = "run"
    /\ Top.phase = "post"
    /\ Top.ci <= Len(Top.chunks)
    /\ ~TooLarge(Top.chunks[Top.ci])
    /\ stack' = SetTop([Top EXCEPT !.final_chunks = Append(@, Top.chunks[Top.ci]),
                                   !.ci = @ + 1])
    /\ UNCHANGED <<input, pc, result, resplits, limiterVars, enrichVars, textVars, processVars>>

\* the call would repeat a call that is still active: the function is
\* deterministic, so the nested calls never end
Diverges(text) == \E k \in 1..Depth : stack[k].text = text

\* lines 170-179: a chunk over the limit is split by a nested call
PostRecurse ==
    /\ pc = "run"
    /\ Top.phase = "post"
    /\ Top.ci <= Len(Top.chunks)
    /\ TooLarge(Top.chunks[Top.ci])
    /\ ~Diverges(Top.chunks[Top.ci].text)
    /\ Depth < MaxDepth
    /\ stack' = Append(stack, NewFrame(Top.chunks[Top.ci].text,
                                       Top.chunks[Top.ci].document_id,
                                       Top.chunks[Top.ci].paras))
    /\ resplits' = resplits + 1
    /\ UNCHANGED <<input, pc, result, limiterVars, enrichVars, textVars, processVars>>

\* line 179 with the text of an active call: unbounded recursion, which the
\* process ends with a stack overflow
StackOverflow ==
    /\ pc = "run"
    /\ Top.phase = "post"
    /\ Top.ci <= Len(Top.chunks)
    /\ TooLarge(Top.chunks[Top.ci])
    /\ Diverges(Top.chunks[Top.ci].text)
    /\ pc' = "overflow"
    /\ UNCHANGED <<input, stack, result, resplits, limiterVars, enrichVars, textVars, processVars>>

\* lines 180-184: the sub-chunks a nested call returned, re-stamped
Restamp(sub_chunks, document_id, paras) ==
    [k \in 1..Len(sub_chunks) |->
        [sub_chunks[k] EXCEPT !.document_id = document_id, !.paras = paras]]

\* lines 179-184, 190: a nested call returns to the post-pass of its caller
Return ==
    /\ pc = "run"
    /\ Depth > 1
    /\ Top.phase = "post"
    /\ Top.ci > Len(Top.chunks)
    /\ LET caller == stack[Depth - 1]
           chunk == caller.chunks[caller.ci]
       IN  stack' = Append(SubSeq(stack, 1, Depth - 2),
                 [caller EXCEPT
                     !.final_chunks = @ \o Restamp(Top.final_chunks,
                                                   chunk.document_id, chunk.paras),
                     !.ci = @ + 1])
    /\ UNCHANGED <<input, pc, result, resplits, limiterVars, enrichVars, textVars, processVars>>

\* line 190: the top-level call returns final_chunks
Finish ==
    /\ pc = "run"
    /\ Depth = 1
    /\ Top.phase = "post"
    /\ Top.ci > Len(Top.chunks)
    /\ result' = Top.final_chunks
    /\ pc' = "done"
    /\ stack' = <<>>
    /\ UNCHANGED <<input, resplits, limiterVars, enrichVars, textVars, processVars>>

ChunkNext ==
    \/ ParagraphStep
    \/ EnterSentenceMode
    \/ SentenceStep
    \/ SentenceFlush
    \/ FinalFlush
    \/ PostKeep
    \/ PostRecurse
    \/ StackOverflow
    \/ Return
    \/ Finish

-----------------------------------------------------------------------------
(* Claims about split_into_chunks, checked under SpecChunk                 *)

Contains(text, part) == find(text, part) >= 0

\* the trimmed paragraphs of the document
InputParagraphs ==
    LET ps == Paragraphs(input) IN [k \in 1..Len(ps) |-> trim(ps[k])]

Oversized(paragraph) == estimate_token_count(paragraph) > TARGET_TOKENS

\* the sentences of the oversized paragraphs of the document
\* the sentences of a paragraph as a set: the elements of SentencesOf,
\* each found from the place where it starts
SentenceSet(p) ==
    LET n == Len(p)
        D == {i \in 1..n : IsSentenceEnd(p[i])} \cup {n + 1}
        Starts == {i \in 1..n : /\ ~IsSentenceEnd(p[i])
                                /\ (i = 1 \/ IsSentenceEnd(p[i - 1]))}
    IN  {trim(SubSeq(p, a, SetMin({e \in D : e > a}) - 1)) : a \in Starts}
            \ {<<>>}

InputSentences ==
    LET ps == InputParagraphs
    IN  UNION {SentenceSet(ps[k]) : k \in {i \in 1..Len(ps) : Oversized(ps[i])}}

\* C1: for every input, split_into_chunks ends and returns without
\* raising: the nested calls of the post-pass bottom out, so the process
\* never dies of a stack overflow.
C1_Terminates == pc # "overflow"

\* every nested call followed by the model either repeats an active call
\* (StackOverflow) or fits in MaxDepth (PostRecurse)
DepthSuffices ==
    (pc = "run" /\ Top.phase = "post" /\ Top.ci <= Len(Top.chunks)
        /\ TooLarge(Top.chunks[Top.ci]))
    => (Diverges(Top.chunks[Top.ci].text) \/ Depth < MaxDepth)

\* C3: the chunks are returned in source order: a chunk built from an
\* oversized paragraph (sentence mode) comes after every chunk that holds
\* a paragraph before it and before every chunk that holds a paragraph
\* after it.
C3_SourceOrder ==
    pc = "done" =>
        \A a, b \in 1..Len(result) :
            \A p \in result[a].paras, q \in result[b].paras :
                (/\ p < q
                 /\ Oversized(InputParagraphs[p]) \/ Oversized(InputParagraphs[q]))
                => a < b

\* the part of C4 that does not depend on the call ending: what is
\* returned holds every sentence that is over TARGET_TOKENS on its own, in
\* a chunk over TARGET_TOKENS
OversizedSentenceKept ==
    pc = "done" =>
        \A s \in InputSentences :
            estimate_token_count(s) > TARGET_TOKENS
            => \E k \in 1..Len(result) :
                  /\ Contains(result[k].text, s)
                  /\ result[k].token_count > TARGET_TOKENS

\* C4: a sentence that is over TARGET_TOKENS on its own is never dropped:
\* the call returns, after its post-pass, a sequence with an oversized chunk
\* that holds the sentence.
C4_OversizedSentenceReturned ==
    (\E s \in InputSentences : estimate_token_count(s) > TARGET_TOKENS)
    => /\ pc # "overflow"
       /\ OversizedSentenceKept

\* a chunk that carries one atomic sentence, itself over 3 x TARGET_TOKENS
SingleSentenceOverLimit(chunk) ==
    /\ Len(chunk.text) > 1
    /\ chunk.text[Len(chunk.text)] = "."
    /\ LET s == SubSeq(chunk.text, 1, Len(chunk.text) - 1)
       IN  /\ \A i \in 1..Len(s) : ~IsSentenceEnd(s[i])
           /\ estimate_token_count(s) > TARGET_TOKENS * 3

\* C5: no returned chunk has token_count over 3 x TARGET_TOKENS, except a
\* chunk that carries a single atomic sentence which is itself over it.
C5_NoChunkOverLimit ==
    pc = "done" =>
        \A k \in 1..Len(result) :
            \/ result[k].token_count <= TARGET_TOKENS * 3
            \/ SingleSentenceOverLimit(result[k])

\* the post-pass has re-split a chunk and the call has returned
C5_Witness ==
    /\ pc = "done"
    /\ resplits > 0
    /\ Len(result) > 0

\* C6: no paragraph is dropped from what is returned: every paragraph of at
\* most TARGET_TOKENS is inside the text of a returned chunk, and so is
\* every sentence of every oversized paragraph.
C6_NothingDropped ==
    pc = "done" =>
        /\ \A p \in 1..Len(InputParagraphs) :
              ~Oversized(InputParagraphs[p])
              => \E k \in 1..Len(result) :
                    Contains(result[k].text, InputParagraphs[p])
        /\ \A s \in InputSentences :
              \E k \in 1..Len(result) : Contains(result[k].text, s)

\* a document with an ordinary and an oversized paragraph has been split
C6_Witness ==
    /\ pc = "done"
    /\ \E p, q \in 1..Len(InputParagraphs) :
          /\ ~Oversized(InputParagraphs[p])
          /\ Oversized(InputParagraphs[q])
          /\ Len(SentencesOf(InputParagraphs[q])) > 1

\* the document is a single paragraph without blank lines, of more than
\* 3 x TARGET_TOKENS tokens, made of short sentences (each under
\* OVERLAP_TOKENS tokens)
ShortSentenceParagraph ==
    /\ Len(input) > TARGET_TOKENS * 3
    /\ estimate_token_count(input) > TARGET_TOKENS * 3
    /\ find(input, <<NL, NL>>) < 0
    /\ \A s \in InputSentences : estimate_token_count(s) < OVERLAP_TOKENS

\* the last 4 x OVERLAP_TOKENS characters of a text, without the white
\* space around them
Trailing(text) ==
    trim(SubSeq(text, Len(text) - 4 * OVERLAP_TOKENS + 1, Len(text)))

\* C15: a single paragraph without blank lines, made of short sentences
\* (the "A. B. C." pattern) and of more than 1500 tokens, is split in
\* sentence mode into at least two chunks; no chunk has a token_count over
\* TARGET_TOKENS + OVERLAP_TOKENS, and the text of every chunk after the
\* first begins with the trailing overlap of the chunk before it.
C15_ShortSentencesSplit ==
    /\ (pc = "run" /\ (Top.current_chunk # <<>> \/ Top.cur_paras # {}))
          => ~ShortSentenceParagraph
    /\ (pc = "done" /\ ShortSentenceParagraph) =>
              /\ Len(result) >= 2
              /\ \A k \in 1..Len(result) :
                    /\ result[k].token_count <= TARGET_TOKENS + OVERLAP_TOKENS
                    /\ result[k].paras = {1}
                    /\ result[k].text[Len(result[k].text)] = "."
              /\ \A k \in 2..Len(result) :
                    LET overlap == Trailing(result[k - 1].text)
                    IN  /\ overlap # <<>>
                        /\ Len(result[k].text) > Len(overlap)
                        /\ SubSeq(result[k].text, 1, Len(overlap)) = overlap

\* such a paragraph, with sentences of several words, was split into more
\* than two chunks
C15_Witness ==
    /\ pc = "done"
    /\ ShortSentenceParagraph
    /\ Len(result) > 2
    /\ \E s \in InputSentences : Len(s) > 2

\* C16: for the empty string and for a text of white space and blank
\* lines only, split_into_chunks returns an empty sequence.
C16_BlankGivesNothing ==
    (pc = "done" /\ \A i \in 1..Len(input) : IsWhitespace(input[i]))
    => result = <<>>

\* a text of spaces, newlines and a tab, with a blank line in it, was split
C16_Witness ==
    /\ pc = "done"
    /\ Len(input) > 2
    /\ \A i \in 1..Len(input) : IsWhitespace(input[i])
    /\ find(input, <<NL, NL>>) >= 0
    /\ \E i \in 1..Len(input) : input[i] = "\t"

\* C17: every chunk that is returned carries the document_id the top-level
\* call was given, the sub-chunks of the nested calls at any depth
\* included.
C17_DocumentIdKept ==
    /\ pc = "done" => \A k \in 1..Len(result) : result[k].document_id = DocumentId
    /\ \A d \in 1..Depth :
          /\ stack[d].file_name = DocumentId
          /\ \A k \in 1..Len(stack[d].final_chunks) :
                stack[d].final_chunks[k].document_id = DocumentId

\* sub-chunks of a nested call are among the chunks returned, next to a
\* chunk of the top-level call
C17_Witness ==
    /\ pc = "done"
    /\ resplits > 0
    /\ \E a, b \in 1..Len(result) :
          /\ result[a].paras # result[b].paras
          /\ result[a].document_id = result[b].document_id

\* C25: the paragraphs joined in one chunk are consecutive paragraphs of the
\* source: no paragraph that lies between two paragraphs of a chunk is
\* missing from it (the overlap seed at the start of a chunk apart).
C25_ParagraphsContiguous ==
    pc = "done" =>
        \A k \in 1..Len(result) :
            \A i, j \in result[k].paras :
                \A m \in i..j : m \in result[k].paras

\* C26: the start_position of every returned chunk, the sub-chunks of a
\* re-split among them, is the offset of the first occurrence of the text
\* of the chunk in the text split_into_chunks was called on, and 0 when
\* the text does not occur in it.
C26_StartPositionInInput ==
    pc = "done" =>
        \A k \in 1..Len(result) :
            result[k].start_position = StartPosition(input, result[k].text)

\* the text begins with the prefix
BeginsWith(text, prefix) ==
    /\ Len(prefix) <= Len(text)
    /\ SubSeq(text, 1, Len(prefix)) = prefix

\* the last min(4 x OVERLAP_TOKENS, length) characters of a text, without
\* the white space around them
TrailingOverlap(text) ==
    LET n == Len(text)
        m == IF n < 4 * OVERLAP_TOKENS THEN n ELSE 4 * OVERLAP_TOKENS
    IN  trim(SubSeq(text, n - m + 1, n))

\* a step of the running call that closes its sentence buffer, or its
\* paragraph buffer, before the next unit
ClosesBuffer(phase) ==
    /\ pc = "run" /\ pc' = "run"
    /\ Depth' = Depth
    /\ Top.phase = phase /\ Top'.phase = phase
    /\ Len(Top'.chunks) = Len(Top.chunks) + 1

\* a step of the running call that leaves its chunks as they are
KeepsChunks ==
    /\ pc = "run" /\ pc' = "run"
    /\ Depth' = Depth
    /\ Top.phase \in {"sent", "para"} /\ Top'.phase \in {"sent", "para"}
    /\ Top'.chunks = Top.chunks

\* C27, for one step: a buffer that is closed before the next unit becomes
\* a chunk as it is, and the next buffer is the last min(200, length)
\* characters of that chunk, trimmed, then the separator (a space in
\* sentence mode, a blank line in paragraph mode), then the new unit (the
\* sentence with its period, the paragraph): it begins with a suffix of
\* the closed chunk, and with the whole of it when it has no more than 200
\* characters.  A buffer that is not closed only grows at its end.
SeedsOverlap ==
    /\ ClosesBuffer("sent") =>
           LET closed == Top'.chunks[Len(Top'.chunks)].text
               seed == TrailingOverlap(closed)
               sentence == trim(NextFragment(Top.srest).frag)
           IN  /\ closed = Top.sentence_buffer
               /\ Top.buffer_token_count + estimate_token_count(sentence) > TARGET_TOKENS
               /\ seed # <<>>
               /\ ends_with(closed, seed)
               /\ Top'.sentence_buffer = seed \o <<SP>> \o sentence \o <<".">>
               /\ Len(closed) <= 4 * OVERLAP_TOKENS
                      => BeginsWith(Top'.sentence_buffer, closed)
    /\ ClosesBuffer("para") =>
           LET closed == Top'.chunks[Len(Top'.chunks)].text
               seed == TrailingOverlap(closed)
               paragraph == trim(Top.paragraphs[Top.pi])
           IN  /\ closed = Top.current_chunk
               /\ Top.current_token_count + estimate_token_count(paragraph) > TARGET_TOKENS
               /\ seed # <<>>
               /\ ends_with(closed, seed)
               /\ Top'.current_chunk = seed \o <<NL, NL>> \o paragraph
               /\ Len(closed) <= 4 * OVERLAP_TOKENS
                      => BeginsWith(Top'.current_chunk, closed)
    /\ KeepsChunks =>
           /\ Top.phase = "sent" /\ Top'.phase = "sent"
                  => BeginsWith(Top'.sentence_buffer, Top.sentence_buffer)
           /\ BeginsWith(Top'.current_chunk, Top.current_chunk)

\* C27: whenever a paragraph buffer or a sentence buffer is closed because
\* the next unit would push it over TARGET_TOKENS, the next buffer is
\* seeded with the last min(200, length) characters of the closed chunk,
\* trimmed, followed by the separator and the new unit, so that the next
\* chunk made from that buffer begins with a suffix of the closed chunk,
\* and with all of it when it is at most 200 characters long.
C27_OverlapSeed == [][SeedsOverlap]_vars

\* a chunk of no more than 200 characters was closed in paragraph mode and
\* the chunk made from the next buffer repeats it in full before the blank
\* line and the next paragraph
C27_Witness ==
    /\ pc = "done"
    /\ \E k \in 1..(Len(result) - 1) :
          /\ Len(result[k].text) <= 4 * OVERLAP_TOKENS
          /\ result[k].paras = {1}
          /\ result[k + 1].paras = {2}
          /\ BeginsWith(result[k + 1].text, result[k].text \o <<NL, NL>>)
          /\ result[k + 1].token_count > TARGET_TOKENS

\* C28: the token_count of every returned chunk is estimate_token_count of
\* the text of that chunk, although the splitter keeps it as a running sum
\* (the estimates of the paragraphs, the estimate of each sentence plus 1
\* for its period, the estimate of the overlap seed) and does not estimate
\* the finished text.
C28_TokenCountIsEstimate ==
    pc = "done" =>
        \A k \in 1..Len(result) :
            result[k].token_count = estimate_token_count(result[k].text)

\* the chunks returned hold one made of two paragraphs, or one made of an
\* overlap seed and a paragraph, and one made of several sentences
C28_Witness ==
    /\ pc = "done"
    /\ \E k \in 1..Len(result) :
          /\ Contains(result[k].text, <<NL, NL>>)
          /\ result[k].token_count > 3
    /\ \E k \in 2..Len(result) :
          /\ Contains(result[k].text, <<".", SP>>)
          /\ BeginsWith(result[k].text, TrailingOverlap(result[k - 1].text))
          /\ result[k].token_count > OVERLAP_TOKENS

-----------------------------------------------------------------------------
(* context.rs: RateLimiter and generate_context_with_flash_lite            *)

MaxChecks == 4         \* check_and_update calls followed, one caller
MaxSharedChecks == 2   \* check_and_update calls followed, concurrent callers
MaxTicks == 2          \* free time steps followed

\* the generate_context_with_flash_lite calls that may be active at once
Callers == DOMAIN callers

WINDOW_MS == 60000         \* Duration::from_secs(60)
BUFFER_MS == 100           \* Duration::from_millis(100)
FALLBACK_MS == 1000        \* Duration::from_secs(1)
PROGRAM_MAX_RPM == 30      \* RateLimiter::new(30, 1_000_000)
PROGRAM_MAX_TPM == 1000000

\* the limits RateLimiter::new is given: those of the program, and smaller
\* request limits
RpmChoices == {1, 2, PROGRAM_MAX_RPM}
TpmChoices == {PROGRAM_MAX_TPM}

\* prompt token estimates: small, over half of the budget, over the budget
Costs == {100000, 600000, 1100000}

\* time that may pass between two steps, in milliseconds
Delays == {1000, 60000}

RECURSIVE Sum(_)
Sum(seq) == IF seq = <<>> THEN 0 ELSE seq[1] + Sum(Tail(seq))

\* Kept with a window of two minutes
KeptTwoMinutes(timestamps, one_minute_ago) ==
    {i \in 1..Len(timestamps) : ~(timestamps[i] < one_minute_ago - WINDOW_MS)}

\* lines 172-180: the indices of the entries that stay in the log
Kept(timestamps, one_minute_ago) ==
    {i \in 1..Len(timestamps) : ~(timestamps[i] < one_minute_ago)}

\* the elements of seq at the indices in keep, in order
RECURSIVE Retain(_, _, _)
Retain(seq, keep, i) ==
    IF i > Len(seq) THEN <<>>
    ELSE (IF i \in keep THEN <<seq[i]>> ELSE <<>>) \o Retain(seq, keep, i + 1)

\* OverRequests off by one
OverRequestsStrict(current_rpm) == current_rpm > max_rpm

\* OverTokens without the cost of the new request
OverTokensLogOnly(current_tpm, token_count) == current_tpm > max_tpm

\* line 187: adding this request would exceed the limits
OverRequests(current_rpm) == current_rpm >= max_rpm
OverTokens(current_tpm, token_count) == current_tpm + token_count > max_tpm

\* WaitFor without the 100 ms that are added to the wait
WaitForNoBuffer(timestamps, now) ==
    IF timestamps # <<>>
    THEN LET oldest_timestamp == timestamps[1]
             expiry_time == oldest_timestamp + WINDOW_MS
         IN  IF expiry_time > now THEN expiry_time - now ELSE 0
    ELSE FALLBACK_MS

\* WaitFor that waits for the newest entry of the log to expire
WaitForNewest(timestamps, now) ==
    IF timestamps # <<>>
    THEN LET newest_timestamp == timestamps[Len(timestamps)]
             expiry_time == newest_timestamp + WINDOW_MS
             wait_duration == IF expiry_time > now THEN expiry_time - now ELSE 0
         IN  wait_duration + BUFFER_MS
    ELSE FALLBACK_MS

\* lines 203-224: the wait of a request that is not admitted
WaitFor(timestamps, now) ==
    IF timestamps # <<>>
    THEN LET oldest_timestamp == timestamps[1]
             expiry_time == oldest_timestamp + WINDOW_MS
             wait_duration == IF expiry_time > now THEN expiry_time - now ELSE 0
         IN  wait_duration + BUFFER_MS
    ELSE FALLBACK_MS

IdleCaller ==
    [pc |-> "idle", prompt_token_count |-> 0, now |-> 0, current_rpm |-> 0,
     current_tpm |-> 0, wake |-> 0, log_in |-> <<>>]

\* a lock that excludes nobody
MutexIgnored == TRUE

\* line 125: the lock can be taken
MutexFree == mutex = 0

InCheck(c) == callers[c].pc \in {"prune", "decide"}

CheckBound == IF Cardinality(Callers) = 1 THEN MaxChecks ELSE MaxSharedChecks

\* lines 119-125, 168-169: a call starts with the estimate of its prompt,
\* takes the lock, and check_and_update reads the time
Lock(c) ==
    /\ callers[c].pc = "idle"
    /\ Len(checks) + Cardinality({d \in Callers : InCheck(d)}) < CheckBound
    /\ MutexFree
    /\ mutex' = c
    /\ \E cost \in Costs :
          callers' = [callers EXCEPT ![c] =
                         [IdleCaller EXCEPT !.pc = "prune",
                                            !.prompt_token_count = cost,
                                            !.now = clock,
                                            !.log_in = <<request_timestamps, token_counts>>]]
    /\ UNCHANGED <<max_rpm, max_tpm, request_timestamps, token_counts,
                   clock, checks, ticks, external_calls,
                   chunkVars, enrichVars, textVars, processVars>>

\* lines 171-184: entries older than one minute are removed, and the
\* current rates are read
Prune(c) ==
    /\ callers[c].pc = "prune"
    /\ LET keep == Kept(request_timestamps, callers[c].now - WINDOW_MS)
       IN  /\ request_timestamps' = Retain(request_timestamps, keep, 1)
           /\ token_counts' = Retain(token_counts, keep, 1)
    /\ callers' = [callers EXCEPT ![c].pc = "decide",
                       ![c].current_rpm = Len(request_timestamps'),
                       ![c].current_tpm = Sum(token_counts')]
    /\ UNCHANGED <<max_rpm, max_tpm, mutex, clock, checks, ticks, external_calls,
                   chunkVars, enrichVars, textVars, processVars>>

\* the check that ended, as the claims see it
CheckRecord(c, wait_duration) ==
    [caller |-> c, now |-> callers[c].now, cost |-> callers[c].prompt_token_count,
     wait |-> wait_duration,
     over_requests |-> OverRequests(callers[c].current_rpm),
     over_tokens |-> OverTokens(callers[c].current_tpm, callers[c].prompt_token_count),
     log_in |-> callers[c].log_in,
     log_out |-> <<request_timestamps', token_counts'>>]

\* Reject with the request recorded before the limits are looked at
RejectRecorded(c) ==
    /\ callers[c].pc = "decide"
    /\ \/ OverRequests(callers[c].current_rpm)
       \/ OverTokens(callers[c].current_tpm, callers[c].prompt_token_count)
    /\ LET wait_duration == WaitFor(request_timestamps, callers[c].now)
       IN  /\ request_timestamps' = Append(request_timestamps, callers[c].now)
           /\ token_counts' = Append(token_counts, callers[c].prompt_token_count)
           /\ checks' = Append(checks, CheckRecord(c, wait_duration))
           /\ callers' = [callers EXCEPT ![c].pc = "sleep",
                              ![c].wake = clock + wait_duration]
    /\ mutex' = 0
    /\ UNCHANGED <<max_rpm, max_tpm, clock, ticks, external_calls,
                   chunkVars, enrichVars, textVars, processVars>>

\* Reject with the lock kept over the sleep
RejectHoldingLock(c) ==
    /\ callers[c].pc = "decide"
    /\ \/ OverRequests(callers[c].current_rpm)
       \/ OverTokens(callers[c].current_tpm, callers[c].prompt_token_count)
    /\ LET wait_duration == WaitFor(request_timestamps, callers[c].now)
       IN  /\ UNCHANGED <<request_timestamps, token_counts>>
           /\ checks' = Append(checks, CheckRecord(c, wait_duration))
           /\ callers' = [callers EXCEPT ![c].pc = "sleep",
                              ![c].wake = clock + wait_duration]
    /\ UNCHANGED <<max_rpm, max_tpm, clock, ticks, external_calls, mutex,
                   chunkVars, enrichVars, textVars, processVars>>

\* lines 186-225, 127, 129-135: the request is not admitted; the wait is
\* returned, the lock is released and the caller sleeps
Reject(c) ==
    /\ callers[c].pc = "decide"
    /\ \/ OverRequests(callers[c].current_rpm)
       \/ OverTokens(callers[c].current_tpm, callers[c].prompt_token_count)
    /\ LET wait_duration == WaitFor(request_timestamps, callers[c].now)
       IN  /\ UNCHANGED <<request_timestamps, token_counts>>
           /\ checks' = Append(checks, CheckRecord(c, wait_duration))
           /\ callers' = [callers EXCEPT ![c].pc = "sleep",
                              ![c].wake = clock + wait_duration]
    /\ mutex' = 0
    /\ UNCHANGED <<max_rpm, max_tpm, clock, ticks, external_calls,
                   chunkVars, enrichVars, textVars, processVars>>

\* line 138: the external call a caller starts, with its time, the token
\* estimate of its prompt, and whether the check before it admitted it
ExternalCall(c, admitted) ==
    [caller |-> c, at |-> clock, cost |-> callers[c].prompt_token_count,
     admitted |-> admitted]

\* lines 227-231, 127, 129: the request is admitted and recorded, the lock
\* is released and the caller goes on to the external call
Admit(c) ==
    /\ callers[c].pc = "decide"
    /\ ~OverRequests(callers[c].current_rpm)
    /\ ~OverTokens(callers[c].current_tpm, callers[c].prompt_token_count)
    /\ request_timestamps' = Append(request_timestamps, callers[c].now)
    /\ token_counts' = Append(token_counts, callers[c].prompt_token_count)
    /\ checks' = Append(checks, CheckRecord(c, 0))
    /\ callers' = [callers EXCEPT ![c].pc = "call"]
    /\ external_calls' = Append(external_calls, ExternalCall(c, TRUE))
    /\ mutex' = 0
    /\ UNCHANGED <<max_rpm, max_tpm, clock, ticks, chunkVars, enrichVars, textVars, processVars>>

\* lines 134, 138: sleep(wait_duration) is over and the caller goes on to
\* the external call
Wake(c) ==
    /\ callers[c].pc = "sleep"
    /\ clock >= callers[c].wake
    /\ callers' = [callers EXCEPT ![c].pc = "call"]
    /\ external_calls' = Append(external_calls, ExternalCall(c, FALSE))
    /\ UNCHANGED <<max_rpm, max_tpm, request_timestamps, token_counts, mutex,
                   clock, checks, ticks, chunkVars, enrichVars, textVars, processVars>>

\* the checks at the end of the history that did not admit: with one
\* caller, the rejections of the request it is making
RECURSIVE Rejections(_)
Rejections(history) ==
    IF \/ history = <<>>
       \/ ~(history[Len(history)].over_requests \/ history[Len(history)].over_tokens)
    THEN 0
    ELSE 1 + Rejections(SubSeq(history, 1, Len(history) - 1))

MaxRetries == MaxChecks + 1

\* a caller that has slept the wait it was given calls check_and_update
\* again for the same cost (lines 124-126, 168-169), in place of going on
\* to the external call
Retry(c) ==
    /\ callers[c].pc = "sleep"
    /\ clock >= callers[c].wake
    /\ Rejections(checks) < MaxRetries
    /\ MutexFree
    /\ mutex' = c
    /\ callers' = [callers EXCEPT
                      ![c].pc = "prune",
                      ![c].now = clock,
                      ![c].log_in = <<request_timestamps, token_counts>>]
    /\ UNCHANGED <<max_rpm, max_tpm, request_timestamps, token_counts,
                   clock, checks, ticks, external_calls,
                   chunkVars, enrichVars, textVars, processVars>>

\* line 138: the external call returns
CallReturn(c) ==
    /\ callers[c].pc = "call"
    /\ callers' = [callers EXCEPT ![c] = IdleCaller]
    /\ UNCHANGED <<max_rpm, max_tpm, request_timestamps, token_counts, mutex,
                   clock, checks, ticks, external_calls,
                   chunkVars, enrichVars, textVars, processVars>>

\* time passes while an external call is under way (a check itself takes
\* no time)
Tick ==
    /\ ticks < MaxTicks
    /\ \A c \in Callers : ~InCheck(c)
    /\ \E c \in Callers : callers[c].pc = "call"
    /\ \E d \in Delays : clock' = clock + d
    /\ ticks' = ticks + 1
    /\ UNCHANGED <<max_rpm, max_tpm, request_timestamps, token_counts, mutex,
                   callers, checks, external_calls,
                   chunkVars, enrichVars, textVars, processVars>>

\* time passes until the first sleeping caller is due
TickToWake ==
    /\ \A c \in Callers : ~InCheck(c)
    /\ \E c \in Callers :
          /\ callers[c].pc = "sleep"
          /\ callers[c].wake > clock
          /\ \A d \in Callers : callers[d].pc = "sleep" /\ callers[d].wake > clock
                                   => callers[c].wake <= callers[d].wake
          /\ clock' = callers[c].wake
    /\ UNCHANGED <<max_rpm, max_tpm, request_timestamps, token_counts, mutex,
                   callers, checks, ticks, external_calls,
                   chunkVars, enrichVars, textVars, processVars>>

LimiterNext ==
    \/ \E c \in Callers : Lock(c)
    \/ \E c \in Callers : Prune(c)
    \/ \E c \in Callers : Reject(c)
    \/ \E c \in Callers : Admit(c)
    \/ \E c \in Callers : Wake(c)
    \/ \E c \in Callers : CallReturn(c)
    \/ Tick
    \/ TickToWake

\* the steps of a caller that calls the check again after every wait
RetryNext ==
    \/ \E c \in Callers : Lock(c)
    \/ \E c \in Callers : Prune(c)
    \/ \E c \in Callers : Reject(c)
    \/ \E c \in Callers : Admit(c)
    \/ \E c \in Callers : Retry(c)
    \/ \E c \in Callers : CallReturn(c)
    \/ Tick
    \/ TickToWake

-----------------------------------------------------------------------------
(* Claims about the rate limiter                                           *)

\* the log (timestamps, token counts) without the entries that are older
\* than one minute at time now
PrunedLog(log, now) ==
    LET keep == Kept(log[1], now - WINDOW_MS)
    IN  <<Retain(log[1], keep, 1), Retain(log[2], keep, 1)>>

\* C2: when a check returns a positive wait w for a cost c at time t, the
\* next check, made for the same cost at time t + w, returns a zero wait.
\* Stated for the requests that fit the token budget on their own; a
\* request over the whole budget is never admitted (C10).
C2_AdmittedAfterWait ==
    \A k \in 1..(Len(checks) - 1) :
        (/\ checks[k].wait > 0
         /\ checks[k].cost <= max_tpm
         /\ checks[k + 1].cost = checks[k].cost
         /\ checks[k + 1].now = checks[k].now + checks[k].wait)
        => checks[k + 1].wait = 0

\* C7: a check that returns a zero wait appends exactly one entry (call
\* time, token cost) to the log; a check that returns a wait records
\* nothing: apart from the pruning of the expired entries the log is then
\* as it was.
C7_RecordsOnlyAdmitted ==
    \A k \in 1..Len(checks) :
        LET h == checks[k]
            pruned == PrunedLog(h.log_in, h.now)
        IN  IF h.wait = 0
            THEN h.log_out = <<Append(pruned[1], h.now), Append(pruned[2], h.cost)>>
            ELSE h.log_out = pruned

\* a check was admitted, and a check was rejected after pruning an entry
C7_Witness ==
    /\ \E k \in 1..Len(checks) : checks[k].wait = 0
    /\ \E k \in 1..Len(checks) :
          /\ checks[k].wait > 0
          /\ Len(checks[k].log_out[1]) < Len(checks[k].log_in[1])
          /\ checks[k].log_out[1] # <<>>

\* C8: with concurrent callers of one limiter every check is one critical
\* section under the mutex, so that never two callers are admitted where
\* the log had room for one: the log never holds more than max_rpm
\* entries nor more than max_tpm tokens.
C8_LimitsHoldWhenShared ==
    /\ Cardinality({c \in Callers : InCheck(c)}) <= 1
    /\ \A c \in Callers : InCheck(c) => mutex = c
    /\ Len(request_timestamps) <= max_rpm
    /\ Sum(token_counts) <= max_tpm

\* two callers have made their checks at the same time with room for one
\* request: one is admitted and the other is not
C8_Witness ==
    /\ Len(checks) = 2
    /\ checks[1].caller # checks[2].caller
    /\ checks[1].now = checks[2].now
    /\ checks[1].wait = 0
    /\ checks[2].wait > 0
    /\ checks[2].log_in[1] = <<checks[1].now>>
    /\ max_rpm = 1

\* the first k checks were made within one window and their costs fit the
\* token budget
WithinWindow(k) ==
    /\ checks[k].now - checks[1].now <= WINDOW_MS
    /\ Sum([j \in 1..k |-> checks[j].cost]) <= max_tpm

\* C9: from an empty log with max_rpm = N >= 1 and a token budget that is
\* not used up, of N + 1 checks made within one 60-second window the first
\* N return a zero wait and the (N+1)-th a positive wait.
C9_FirstNAdmitted ==
    \A k \in 1..Len(checks) :
        (max_rpm >= 1 /\ k <= max_rpm + 1 /\ WithinWindow(k))
        => IF k <= max_rpm THEN checks[k].wait = 0 ELSE checks[k].wait > 0

\* with max_rpm = 2, three checks within one window: two admitted, the
\* third not
C9_Witness ==
    /\ max_rpm = 2
    /\ Len(checks) >= 3
    /\ WithinWindow(3)
    /\ checks[1].wait = 0
    /\ checks[2].wait = 0
    /\ checks[3].wait > 0

\* C10 as it was stated: a request over the whole token budget gets a wait
\* of exactly 1 second from every check, whatever the log holds.
C10_AlwaysOneSecond ==
    \A k \in 1..Len(checks) :
        checks[k].cost > max_tpm => checks[k].wait = FALLBACK_MS

\* C10, amended: a request over the whole token budget is never admitted
\* nor recorded; the wait of every check for it is positive: exactly 1
\* second when the pruned log is empty, and otherwise the wait until the
\* oldest entry of the log expires plus 100 ms.
C10_NeverAdmitted ==
    \A k \in 1..Len(checks) :
        LET h == checks[k]
            pruned == PrunedLog(h.log_in, h.now)
        IN  h.cost > max_tpm
            => /\ h.wait > 0
               /\ h.log_out = pruned
               /\ pruned[1] = <<>> => h.wait = FALLBACK_MS
               /\ pruned[1] # <<>> =>
                     h.wait = BUFFER_MS +
                         (IF pruned[1][1] + WINDOW_MS > h.now
                          THEN pruned[1][1] + WINDOW_MS - h.now ELSE 0)

\* a request over the budget was checked twice in a row on an empty log,
\* and once on a log that holds an entry
C10_Witness ==
    /\ \E k \in 1..(Len(checks) - 1) :
          /\ checks[k].cost > max_tpm
          /\ checks[k + 1].cost > max_tpm
          /\ checks[k].log_out[1] = <<>>
          /\ checks[k + 1].log_out[1] = <<>>
          /\ checks[k + 1].now = checks[k].now + checks[k].wait
    /\ \E k \in 1..Len(checks) :
          /\ checks[k].cost > max_tpm
          /\ checks[k].log_out[1] # <<>>

\* C11: after every check made at time now, admitted or not, every entry
\* left in the log has a timestamp within the trailing 60 seconds of now:
\* no entry older than now - 60 s survives a check.
C11_LogWithinWindow ==
    \A k \in 1..Len(checks) :
        LET h == checks[k]
        IN  /\ Len(h.log_out[1]) = Len(h.log_out[2])
            /\ \A i \in 1..Len(h.log_out[1]) :
                  /\ h.log_out[1][i] >= h.now - WINDOW_MS
                  /\ h.log_out[1][i] <= h.now

\* a check has found in the log an entry older than 60 s, which it removed,
\* next to a younger one, which it left
C11_Witness ==
    \E k \in 1..Len(checks) :
        /\ \E i \in 1..Len(checks[k].log_in[1]) :
              checks[k].log_in[1][i] < checks[k].now - WINDOW_MS
        /\ \E i \in 1..Len(checks[k].log_in[1]) :
              /\ checks[k].log_in[1][i] >= checks[k].now - WINDOW_MS
              /\ checks[k].log_in[1][i] = checks[k].log_out[1][1]

\* C22: a check that rejects a request on a pruned log that is not empty
\* returns max(0, t0 + 60 s - now) + 100 ms, where t0 is the timestamp of
\* the first entry of the log and no entry of the log is older than t0, so
\* that the wait is between 100 ms and 60.1 s; a check that rejects a
\* request on an empty pruned log returns exactly 1 s.
C22_WaitUntilOldestExpires ==
    \A k \in 1..Len(checks) :
        LET h == checks[k]
            timestamps == PrunedLog(h.log_in, h.now)[1]
        IN  h.wait > 0 =>
               IF timestamps # <<>>
               THEN LET t0 == timestamps[1]
                        left == t0 + WINDOW_MS - h.now
                    IN  /\ h.wait = (IF left > 0 THEN left ELSE 0) + BUFFER_MS
                        /\ \A i \in 1..Len(timestamps) : t0 <= timestamps[i]
                        /\ h.wait >= BUFFER_MS
                        /\ h.wait <= WINDOW_MS + BUFFER_MS
               ELSE h.wait = FALLBACK_MS

\* a request was rejected on a log of two entries of different age, and a
\* request was rejected on an empty log
C22_Witness ==
    /\ \E k \in 1..Len(checks) :
          LET timestamps == PrunedLog(checks[k].log_in, checks[k].now)[1]
          IN  /\ checks[k].wait > 0
              /\ Len(timestamps) = 2
              /\ timestamps[1] < timestamps[2]
              /\ checks[k].wait < WINDOW_MS + BUFFER_MS
    /\ \E k \in 1..Len(checks) :
          /\ checks[k].wait = FALLBACK_MS
          /\ PrunedLog(checks[k].log_in, checks[k].now)[1] = <<>>

\* C24: the limiter mutex is held only while a check runs: a caller that
\* sleeps its wait or has its external call under way does not hold it,
\* so that whenever no check is running the mutex is free for the check of
\* any other caller.
C24_LockOnlyDuringCheck ==
    /\ \A c \in Callers : callers[c].pc \in {"sleep", "call"} => mutex # c
    /\ mutex # 0 => mutex \in Callers /\ InCheck(mutex)
    /\ (\A c \in Callers : ~InCheck(c)) => MutexFree

\* a caller runs its check, holding the mutex, while another caller sleeps
\* the wait of a check it made before
C24_Witness ==
    \E c, d \in Callers :
          /\ callers[c].pc = "sleep"
          /\ clock < callers[c].wake
          /\ callers[d].pc = "decide"
          /\ mutex = d
          /\ \E k \in 1..Len(checks) : checks[k].caller = c /\ checks[k].wait > 0

-----------------------------------------------------------------------------
(* context.rs: generate_context_for_chunk and contextualize_chunks         *)

MaxBatch == 3   \* chunks of a batch

\* line 58: the prompt is the document and the chunk between these texts
PromptHead ==
    <<"<", "d", "o", "c", "u", "m", "e", "n", "t", ">", NL>>
PromptMiddle ==
    <<NL, "<", "/", "d", "o", "c", "u", "m", "e", "n", "t", ">", NL, "H",
      "e", "r", "e", SP, "i", "s", SP, "t", "h", "e", SP, "c", "h", "u",
      "n", "k", SP, "w", "e", SP, "w", "a", "n", "t", SP, "t", "o", SP,
      "s", "i", "t", "u", "a", "t", "e", SP, "w", "i", "t", "h", "i",
      "n", SP, "t", "h", "e", SP, "w", "h", "o", "l", "e", SP, "d", "o",
      "c", "u", "m", "e", "n", "t", NL, "<", "c", "h", "u", "n", "k",
      ">", NL>>
PromptTail ==
    <<NL, "<", "/", "c", "h", "u", "n", "k", ">", NL, "P", "l", "e", "a",
      "s", "e", SP, "g", "i", "v", "e", SP, "a", SP, "s", "h", "o", "r",
      "t", SP, "s", "u", "c", "c", "i", "n", "c", "t", SP, "c", "o", "n",
      "t", "e", "x", "t", SP, "t", "o", SP, "s", "i", "t", "u", "a", "t",
      "e", SP, "t", "h", "i", "s", SP, "c", "h", "u", "n", "k", SP, "w",
      "i", "t", "h", "i", "n", SP, "t", "h", "e", SP, "o", "v", "e", "r",
      "a", "l", "l", SP, "d", "o", "c", "u", "m", "e", "n", "t", SP, "f",
      "o", "r", SP, "t", "h", "e", SP, "p", "u", "r", "p", "o", "s", "e",
      "s", SP, "o", "f", SP, "i", "m", "p", "r", "o", "v", "i", "n", "g",
      SP, "s", "e", "a", "r", "c", "h", SP, "r", "e", "t", "r", "i", "e",
      "v", "a", "l", SP, "o", "f", SP, "t", "h", "e", SP, "c", "h", "u",
      "n", "k", ".", SP, "A", "n", "s", "w", "e", "r", SP, "o", "n", "l",
      "y", SP, "w", "i", "t", "h", SP, "t", "h", "e", SP, "s", "u", "c",
      "c", "i", "n", "c", "t", SP, "c", "o", "n", "t", "e", "x", "t", SP,
      "a", "n", "d", SP, "n", "o", "t", "h", "i", "n", "g", SP, "e", "l",
      "s", "e", ".">>

\* lines 43-46: the context of a chunk without a source document
StandalonePrefix ==
    <<"C", "o", "n", "t", "e", "x", "t", ":", SP, "T", "h", "i", "s", SP,
      "i", "s", SP, "a", SP, "s", "t", "a", "n", "d", "a", "l", "o", "n",
      "e", SP, "t", "e", "x", "t", SP, "e", "x", "c", "e", "r", "p", "t",
      ".", NL, NL>>

\* line 67: "Context: "
ContextLabel == <<"C", "o", "n", "t", "e", "x", "t", ":", SP>>

\* The source document as contextualize_chunks reads it: whether it is
\* empty (line 42) and the token estimate it adds to a prompt (line 121).
\* The document stands between two newlines in the prompt, so the words and
\* the punctuation of the prompt are those of its parts.
SourceDocument(token_count, length) ==
    [token_count |-> token_count, length |-> length]

\* an empty document, a short one, one over half of the token budget of a
\* minute, and one over the whole budget
SourceDocuments ==
    {SourceDocument(0, 0), SourceDocument(1000, 5000),
     SourceDocument(600000, 3000000), SourceDocument(1100000, 5500000)}

\* is_empty that takes every document for a text
is_empty_never(document) == FALSE

\* line 42: source_document.is_empty()
is_empty(document) == document.length = 0

\* lines 57-61, 121: estimate_token_count(prompt)
PromptTokens(document, chunk) ==
    estimate_token_count(PromptHead) + document.token_count
    + estimate_token_count(PromptMiddle \o chunk.text \o PromptTail)

\* the chunks of a batch; contextualize_chunks takes any TextChunk, and the
\* token_count of the second one is not the estimate of its text
BatchChunks ==
    {TextChunk(Small, estimate_token_count(Small), DocumentId, 0, {}),
     TextChunk(<<"x", ",", "y">>, 3, DocumentId, 7, {})}

Batches == UNION {[1..n -> BatchChunks] : n \in 0..MaxBatch}

\* what the external generation call may return: a text with white space
\* around it, or nothing
Contexts == {<<SP, "c", "t", "x", ".", NL>>, <<>>}

\* an anyhow::Error: its message and the chain of its causes
Error(message, chain) == [message |-> message, chain |-> chain]

NoError == Error("", <<>>)

\* the errors the external generation call may fail with
Errors == {Error("timeout", <<>>), Error("status 429", <<"quota">>)}

\* the ? operator that adds a context to the error
QuestionMarkWrapped(e) ==
    Error("Failed to generate context", <<e.message>> \o e.chain)

\* lines 64, 92: the ? operator on an anyhow::Result in a function that
\* returns an anyhow::Result hands the error on as it is
QuestionMark(e) == e

\* ContextualizedChunk
ContextualizedChunk(original_chunk, contextualized_text, token_count) ==
    [original_chunk |-> original_chunk,
     contextualized_text |-> contextualized_text,
     token_count |-> token_count]

\* lines 43-53: the chunk of a document that is empty
StandaloneChunk(chunk) ==
    LET contextualized_text == StandalonePrefix \o chunk.text
    IN  ContextualizedChunk(chunk, contextualized_text,
                            estimate_token_count(contextualized_text))

\* lines 67-74: the chunk with the context the external call returned
EnrichedChunk(chunk, context) ==
    LET contextualized_text ==
            ContextLabel \o trim(context) \o <<NL, NL>> \o chunk.text
    IN  ContextualizedChunk(chunk, contextualized_text,
                            estimate_token_count(contextualized_text))

\* Result<Vec<ContextualizedChunk>>, and the calls that have not returned
Outcome(tag, value, error) == [tag |-> tag, value |-> value, error |-> error]

Pending == Outcome("Pending", <<>>, NoError)

\* lines 89-93, 42-54: the next chunk of a batch whose source document is
\* empty gets the fixed context, without a check and without a call
Placeholder(c) ==
    /\ outcome.tag = "Pending"
    /\ position <= Len(batch)
    /\ callers[c].pc = "idle"
    /\ is_empty(source_document)
    /\ contextualized_chunks' =
           Append(contextualized_chunks, StandaloneChunk(batch[position]))
    /\ position' = position + 1
    /\ UNCHANGED <<source_document, batch, outcome, failures,
                   limiterVars, chunkVars, textVars, processVars>>

\* lines 89-91, 56-64, 119-126, 168-169: for the next chunk the prompt is
\* built and estimated, the lock is taken and check_and_update reads the
\* time
GenerateContext(c) ==
    /\ outcome.tag = "Pending"
    /\ position <= Len(batch)
    /\ callers[c].pc = "idle"
    /\ ~is_empty(source_document)
    /\ MutexFree
    /\ mutex' = c
    /\ callers' = [callers EXCEPT ![c] =
           [IdleCaller EXCEPT
               !.pc = "prune",
               !.prompt_token_count = PromptTokens(source_document, batch[position]),
               !.now = clock,
               !.log_in = <<request_timestamps, token_counts>>]]
    /\ UNCHANGED <<max_rpm, max_tpm, request_timestamps, token_counts,
                   clock, checks, external_calls, ticks, chunkVars, enrichVars, textVars, processVars>>

\* CallSucceeds with the enriched chunk put in front of the earlier ones
CallSucceedsPrepended(c, context) ==
    /\ outcome.tag = "Pending"
    /\ callers[c].pc = "call"
    /\ callers' = [callers EXCEPT ![c] = IdleCaller]
    /\ contextualized_chunks' =
           <<EnrichedChunk(batch[position], context)>> \o contextualized_chunks
    /\ position' = position + 1
    /\ UNCHANGED <<max_rpm, max_tpm, request_timestamps, token_counts, mutex,
                   clock, checks, external_calls, ticks, chunkVars, textVars, processVars,
                   source_document, batch, outcome, failures>>

\* lines 138, 64-74, 93: the external call returns a context, and the
\* enriched chunk is added to the result
CallSucceeds(c, context) ==
    /\ outcome.tag = "Pending"
    /\ callers[c].pc = "call"
    /\ callers' = [callers EXCEPT ![c] = IdleCaller]
    /\ contextualized_chunks' =
           Append(contextualized_chunks, EnrichedChunk(batch[position], context))
    /\ position' = position + 1
    /\ UNCHANGED <<max_rpm, max_tpm, request_timestamps, token_counts, mutex,
                   clock, checks, external_calls, ticks, chunkVars, textVars, processVars,
                   source_document, batch, outcome, failures>>

\* CallFails with the error logged and the batch carried on
CallFailsSuppressed(c, e) ==
    /\ outcome.tag = "Pending"
    /\ callers[c].pc = "call"
    /\ callers' = [callers EXCEPT ![c] = IdleCaller]
    /\ failures' = Append(failures, [chunk |-> position, error |-> e])
    /\ position' = position + 1
    /\ UNCHANGED <<max_rpm, max_tpm, request_timestamps, token_counts, mutex,
                   clock, checks, external_calls, ticks, chunkVars, textVars, processVars,
                   source_document, batch, outcome, contextualized_chunks>>

\* lines 138, 64, 92: the external call fails; the error goes up through
\* the two ? operators, contextualize_chunks returns it and its local
\* vector is dropped
CallFails(c, e) ==
    /\ outcome.tag = "Pending"
    /\ callers[c].pc = "call"
    /\ callers' = [callers EXCEPT ![c] = IdleCaller]
    /\ failures' = Append(failures, [chunk |-> position, error |-> e])
    /\ outcome' = Outcome("Err", <<>>, QuestionMark(QuestionMark(e)))
    /\ contextualized_chunks' = <<>>
    /\ UNCHANGED <<max_rpm, max_tpm, request_timestamps, token_counts, mutex,
                   clock, checks, external_calls, ticks, chunkVars, textVars, processVars,
                   source_document, batch, position>>

\* lines 104-114: the batch is used up and the result is returned
ReturnOk(c) ==
    /\ outcome.tag = "Pending"
    /\ position > Len(batch)
    /\ callers[c].pc = "idle"
    /\ outcome' = Outcome("Ok", contextualized_chunks, NoError)
    /\ contextualized_chunks' = <<>>
    /\ UNCHANGED <<source_document, batch, position, failures,
                   limiterVars, chunkVars, textVars, processVars>>

EnrichNext ==
    \/ \E c \in Callers : Placeholder(c)
    \/ \E c \in Callers : GenerateContext(c)
    \/ \E c \in Callers : Prune(c)
    \/ \E c \in Callers : Reject(c)
    \/ \E c \in Callers : Admit(c)
    \/ \E c \in Callers : Wake(c)
    \/ \E c \in Callers, context \in Contexts : CallSucceeds(c, context)
    \/ \E c \in Callers, e \in Errors : CallFails(c, e)
    \/ \E c \in Callers : ReturnOk(c)
    \/ Tick
    \/ TickToWake

-----------------------------------------------------------------------------
(* Claims about contextualize_chunks, checked under SpecEnrich             *)

\* C12: when the external generation call for chunk k fails,
\* contextualize_chunks returns that same error, not retried, suppressed or
\* wrapped, and makes no limiter check and no external call for any chunk
\* after k: one check and one call were made for each chunk up to k, and
\* none after.
C12_ErrorEndsBatch ==
    failures # <<>> =>
        LET k == failures[1].chunk
        IN  /\ Len(failures) = 1
            /\ outcome.tag = "Err"
            /\ outcome.error = failures[1].error
            /\ Len(checks) = k
            /\ Len(external_calls) = k
            /\ \A c \in Callers : callers[c].pc = "idle"
            /\ mutex = 0

\* the call for the second chunk of three has failed with an error that
\* has a cause
C12_Witness ==
    /\ Len(batch) = 3
    /\ failures # <<>>
    /\ failures[1].chunk = 2
    /\ failures[1].error.chain # <<>>
    /\ outcome.tag = "Err"

\* C13: when contextualize_chunks ends with an error at chunk k, the
\* enriched chunks of the k - 1 chunks before it are not discarded: what
\* the caller is handed holds them.
C13_PartialResultsKept ==
    outcome.tag = "Err" => Len(outcome.value) = failures[1].chunk - 1

\* C14: with an empty source document no limiter check and no external
\* call is made, and every enriched chunk has the text "Context: This is a
\* standalone text excerpt.", a blank line and the text of the chunk, with
\* the estimate of that text as its token_count.
C14_EmptyDocumentPlaceholder ==
    source_document.length = 0 =>
        /\ checks = <<>>
        /\ external_calls = <<>>
        /\ failures = <<>>
        /\ \A c \in Callers : callers[c].pc = "idle"
        /\ LET enriched == outcome.value \o contextualized_chunks
               n == Len(StandalonePrefix)
           IN  \A k \in 1..Len(enriched) :
                  LET text == enriched[k].contextualized_text
                  IN  /\ enriched[k].original_chunk = batch[k]
                      /\ SubSeq(text, 1, n) = StandalonePrefix
                      /\ SubSeq(text, n + 1, Len(text)) = batch[k].text
                      /\ SubSeq(text, n - 1, n) = <<NL, NL>>
                      /\ enriched[k].token_count = estimate_token_count(text)
                      /\ enriched[k].token_count = 9 + estimate_token_count(batch[k].text)

\* a batch of three chunks was enriched for an empty source document
C14_Witness ==
    /\ source_document.length = 0
    /\ outcome.tag = "Ok"
    /\ Len(outcome.value) = 3
    /\ batch[1] # batch[2]

\* the external calls started in the 60 seconds up to the k-th one
CallsInWindow(k) ==
    {j \in 1..k : external_calls[j].at > external_calls[k].at - WINDOW_MS}

\* C20: every external call that is issued has been admitted and recorded
\* by the limiter, so that in any trailing 60-second window no more than
\* max_rpm external calls are started and the prompt token estimates of
\* those calls sum to no more than max_tpm.
C20_CallsWithinLimits ==
    \A k \in 1..Len(external_calls) :
        /\ external_calls[k].admitted
        /\ Cardinality(CallsInWindow(k)) <= max_rpm
        /\ Sum([j \in 1..k |-> IF j \in CallsInWindow(k)
                                THEN external_calls[j].cost ELSE 0]) <= max_tpm

\* the chunks of the batch whose check has been made, and those whose
\* external call has been started
ChecksMade ==
    IF \E c \in Callers : callers[c].pc \in {"sleep", "call"}
    THEN position
    ELSE IF outcome.tag = "Err" THEN position ELSE position - 1

CallsStarted ==
    IF \E c \in Callers : callers[c].pc = "call"
    THEN position
    ELSE IF outcome.tag = "Err" THEN position ELSE position - 1

\* C21: with a non-empty source document contextualize_chunks works on the
\* chunks one at a time and in input order: chunk k gets exactly one
\* limiter check, for the estimate of its own prompt, and then exactly one
\* external call, started no earlier than the wait of that check has
\* passed; the check for chunk k + 1 is made only after the call for chunk
\* k has returned; the enriched chunks are kept in input order, and on
\* success there is one for each chunk of the batch.
C21_OneChunkAtATime ==
    source_document.length > 0 =>
        /\ Len(checks) = ChecksMade
        /\ Len(external_calls) = CallsStarted
        /\ \A k \in 1..Len(checks) :
               checks[k].cost = PromptTokens(source_document, batch[k])
        /\ \A k \in 1..Len(external_calls) :
               /\ external_calls[k].cost = checks[k].cost
               /\ external_calls[k].at >= checks[k].now + checks[k].wait
               /\ k < Len(checks) => checks[k + 1].now >= external_calls[k].at
        /\ outcome.tag = "Pending" =>
               Len(contextualized_chunks) = position - 1
        /\ outcome.tag = "Ok" => Len(outcome.value) = Len(batch)
        /\ LET enriched == outcome.value \o contextualized_chunks
           IN  \A k \in 1..Len(enriched) :
                  enriched[k].original_chunk = batch[k]

\* a batch of three different chunks was enriched, and the call for one of
\* them was made after the sleep its rejected check asked for
C21_Witness ==
    /\ source_document.length > 0
    /\ outcome.tag = "Ok"
    /\ Len(outcome.value) = 3
    /\ batch[1] # batch[2]
    /\ \E k \in 1..Len(checks) : checks[k].wait > 0

-----------------------------------------------------------------------------
(* Functions of texts: estimate_token_count (chunking.rs) and              *)
(* normalize_whitespace (document.rs)                                      *)

MaxTextLen == 5   \* characters of a text

CR == "\r"

\* a letter, a punctuation mark and the white space characters
Alphabet == {"a", ",", SP, NL, CR, "\t"}

Texts == UNION {[1..n -> Alphabet] : n \in 0..MaxTextLen}

\* document.rs lines 97-105, 117-123: the newlines counted are added, two
\* at most
Newlines(newline_count) ==
    IF newline_count >= 2 THEN <<NL, NL>>
    ELSE IF newline_count > 0 THEN <<NL>>
    ELSE <<>>

\* document.rs lines 89-123: the loop over the characters of result, from
\* the i-th on, and the trailing newlines
RECURSIVE normalize_loop(_, _, _, _, _)
normalize_loop(result_, i, prev_char, newline_count, normalized_) ==
    IF i > Len(result_) THEN normalized_ \o Newlines(newline_count)
    ELSE LET c == result_[i]
         IN  IF c = NL
             THEN normalize_loop(result_, i + 1, prev_char, newline_count + 1,
                                 normalized_)
             ELSE LET flushed == normalized_ \o Newlines(newline_count)
                      pushed == IF ~(c = SP /\ prev_char = SP)
                                THEN Append(flushed, c) ELSE flushed
                  IN  normalize_loop(result_, i + 1, c, 0, pushed)

NotCR(c) == c # CR

\* document.rs lines 84-126: normalize_whitespace
normalize_whitespace(t) ==
    LET result_ == SelectSeq(t, NotCR)
    IN  trim(normalize_loop(result_, 1, SP, 0, <<>>))

\* chunking.rs lines 195-200, called on text_in
EstimateTokenCount ==
    /\ estimated = <<>>
    /\ estimated' = <<estimate_token_count(text_in)>>
    /\ UNCHANGED <<text_in, normalized, chunkVars, limiterVars, enrichVars,
                   processVars>>

\* document.rs lines 84-126, called on text_in
NormalizeWhitespace ==
    /\ normalized = <<>>
    /\ normalized' = <<normalize_whitespace(text_in)>>
    /\ UNCHANGED <<text_in, estimated, chunkVars, limiterVars, enrichVars,
                   processVars>>

TextNext ==
    \/ EstimateTokenCount
    \/ NormalizeWhitespace

-----------------------------------------------------------------------------
(* Claims about the functions of texts, checked under SpecText             *)

\* the whitespace-delimited words of a text
RECURSIVE WordsOf(_)
WordsOf(t) ==
    IF t = <<>> THEN <<>>
    ELSE IF IsWhitespace(t[1]) THEN WordsOf(Tail(t))
    ELSE LET W == {i \in 1..Len(t) : IsWhitespace(t[i])}
             e == IF W = {} THEN Len(t) + 1 ELSE SetMin(W)
         IN  <<SubSeq(t, 1, e - 1)>> \o WordsOf(SubSeq(t, e, Len(t)))

\* C18: estimate_token_count returns the number of whitespace-delimited
\* words plus the number of ASCII punctuation characters, and returns 0
\* exactly for the texts without a word and without punctuation, the empty
\* string among them.
C18_WordsPlusPunctuation ==
    estimated # <<>> =>
        LET words == WordsOf(text_in)
            punctuation == SelectSeq(text_in, IsAsciiPunctuation)
        IN  /\ estimated[1] = Len(words) + Len(punctuation)
            /\ (estimated[1] = 0) <=> (words = <<>> /\ punctuation = <<>>)
            /\ text_in = <<>> => estimated[1] = 0

\* the estimate of a text of two words, one of them with two punctuation
\* marks, between white space, was computed
C18_Witness ==
    /\ estimated = <<4>>
    /\ Len(WordsOf(text_in)) = 2
    /\ IsWhitespace(text_in[1])
    /\ IsWhitespace(text_in[Len(text_in)])

\* the text without its carriage returns
RemoveCarriageReturns(t) == SelectSeq(t, NotCR)

\* each run of spaces made one space
CollapseSpaces(t) ==
    Retain(t, {i \in 1..Len(t) : ~(i > 1 /\ t[i] = SP /\ t[i - 1] = SP)}, 1)

\* each run of more than two newlines made two newlines
CollapseNewlines(t) ==
    Retain(t, {i \in 1..Len(t) :
                  ~(i > 2 /\ t[i] = NL /\ t[i - 1] = NL /\ t[i - 2] = NL)}, 1)

\* C19: normalize_whitespace removes every carriage return, makes each run
\* of spaces one space and each run of two or more newlines two newlines
\* (a single newline stays), trims the white space at both ends, and leaves
\* every other character, a lone space included, in place and in order.
C19_NormalizeAsStated ==
    normalized # <<>> =>
        normalized[1] =
            trim(CollapseNewlines(CollapseSpaces(RemoveCarriageReturns(text_in))))

-----------------------------------------------------------------------------
(* main.rs, rag.rs: main and process_file; database.rs; embeddings.rs      *)

MaxRuns == 2   \* runs of main on the same file that are followed

\* the files main is run on: an empty one, a short one, one whose second
\* paragraph is oversized, one that is re-split, and one on which the
\* splitter does not end
ProcessDocuments ==
    {<<>>, Small, JoinBlankLines(<<Small, Sentences, Medium>>), TailThenLong,
     HugeSentence}

\* database.rs lines 51, 69, 105: get_collection_name(file_name), one
\* collection for one file
CollectionName == DocumentId

\* database.rs line 81, main.rs line 67: .context(message) on an error
WithContext(message, e) == Error(message, <<e.message>> \o e.chain)

\* database.rs lines 60-63: anyhow!("Failed to check collection existence:
\* {}", e), the error formatted into the message
Formatted(message, e) == Error(<<message, e.message>>, <<>>)

\* embeddings.rs lines 43-45: the embedding the external call returns for
\* a text
Embedding(text) == [values |-> <<"embedding of", text>>]

\* embeddings.rs lines 47-50
ContextualEmbedding(embedding, contextualized_chunk) ==
    [embedding |-> embedding, contextualized_chunk |-> contextualized_chunk]

\* StorageChunk with the text of the enriched chunk and the token_count of
\* the original one
StorageChunkOldCount(contextual_embedding) ==
    LET original_chunk == contextual_embedding.contextualized_chunk.original_chunk
    IN  [original_chunk EXCEPT
            !.text = contextual_embedding.contextualized_chunk.contextualized_text]

\* rag.rs lines 68-76: the TextChunk made for storage
StorageChunk(contextual_embedding) ==
    LET original_chunk == contextual_embedding.contextualized_chunk.original_chunk
    IN  TextChunk(contextual_embedding.contextualized_chunk.contextualized_text,
                  contextual_embedding.contextualized_chunk.token_count,
                  original_chunk.document_id,
                  original_chunk.start_position,
                  original_chunk.paras)

\* database.rs lines 108-123: the points made of the chunks and the
\* embeddings, zipped
Points(chunks, embeddings) ==
    [idx \in 1..(IF Len(chunks) < Len(embeddings) THEN Len(chunks)
                 ELSE Len(embeddings)) |->
        [id |-> idx - 1,
         vector |-> embeddings[idx].values,
         payload |-> [text |-> chunks[idx].text,
                      document_id |-> chunks[idx].document_id,
                      start_position |-> chunks[idx].start_position,
                      chunk_index |-> idx - 1]]]

\* what store_chunks is called with
Handed(called, chunks, embeddings) ==
    [called |-> called, chunks |-> chunks, embeddings |-> embeddings]

\* one run of main that has ended: the step it ended at, what process_file
\* returned (tag "None" when it was not called, "Abort" when the process
\* died in it) and what main returned
Run(at, process_file, returned) ==
    [at |-> at, process_file |-> process_file, returned |-> returned]

\* the Qdrant collections with one more, which is empty
WithCollection(name) ==
    [n \in DOMAIN collections \cup {name} |->
        IF n = name THEN <<>> ELSE collections[n]]

\* the Qdrant collections after a step of process_file has failed, with
\* the collection of the file deleted
CollectionDeleted ==
    [n \in DOMAIN collections \ {CollectionName} |-> collections[n]]

\* rag.rs lines 49, 60, 85: the Qdrant collections after a step of
\* process_file has failed: the ? operator returns, nothing is deleted
CollectionLeft == collections

\* main.rs lines 59, 63, 67, 74: main returns
MainReturns(at, process_file, returned) ==
    /\ stage' = "exit"
    /\ runs' = Append(runs, Run(at, process_file, returned))

\* main.rs line 59, database.rs lines 53-54: the collection is there, and
\* main goes on to the query loop
CollectionExistsTrue ==
    /\ stage = "main"
    /\ CollectionName \in DOMAIN collections
    /\ stage' = "query"
    /\ UNCHANGED <<content, collections, contextual_embeddings, handed, runs,
                   chunkVars, limiterVars, enrichVars, textVars>>

\* main.rs lines 59-63, database.rs lines 55-59: the collection is not
\* found, and main reads the file
CollectionExistsFalse ==
    /\ stage = "main"
    /\ CollectionName \notin DOMAIN collections
    /\ stage' = "read"
    /\ UNCHANGED <<content, collections, contextual_embeddings, handed, runs,
                   chunkVars, limiterVars, enrichVars, textVars>>

\* main.rs line 59, database.rs lines 60-63: the request fails
CollectionExistsFails(e) ==
    /\ stage = "main"
    /\ MainReturns("main", Outcome("None", <<>>, NoError),
                   Outcome("Err", <<>>,
                           Formatted("Failed to check collection existence", e)))
    /\ UNCHANGED <<content, collections, contextual_embeddings, handed,
                   chunkVars, limiterVars, enrichVars, textVars>>

\* main.rs lines 63-65: the file is read and process_file is called
ReadFile ==
    /\ stage = "read"
    /\ stage' = "create"
    /\ UNCHANGED <<content, collections, contextual_embeddings, handed, runs,
                   chunkVars, limiterVars, enrichVars, textVars>>

\* main.rs line 63: the file cannot be read
ReadFileFails(e) ==
    /\ stage = "read"
    /\ MainReturns("read", Outcome("None", <<>>, NoError),
                   Outcome("Err", <<>>, WithContext("Failed to read file", e)))
    /\ UNCHANGED <<content, collections, contextual_embeddings, handed,
                   chunkVars, limiterVars, enrichVars, textVars>>

\* rag.rs lines 38-41, database.rs lines 68-84: the collection is created,
\* and split_into_chunks is called on the content
CreateCollection ==
    /\ stage = "create"
    /\ CollectionName \notin DOMAIN collections
    /\ collections' = WithCollection(CollectionName)
    /\ stage' = "split"
    /\ input' = content
    /\ stack' = <<NewFrame(content, DocumentId, {})>>
    /\ pc' = "run"
    /\ UNCHANGED <<content, contextual_embeddings, handed, runs, result,
                   resplits, limiterVars, enrichVars, textVars>>

\* rag.rs line 38, database.rs lines 78-81: the collection is not created
CreateCollectionFails(e) ==
    /\ stage = "create"
    /\ LET error == WithContext("Failed to create collection", e)
       IN  MainReturns("create", Outcome("Err", <<>>, error),
                       Outcome("Err", <<>>,
                               WithContext("Failed to process file", error)))
    /\ UNCHANGED <<content, collections, contextual_embeddings, handed,
                   chunkVars, limiterVars, enrichVars, textVars>>

\* rag.rs line 41: the nested calls of split_into_chunks overflow the
\* stack and the process dies inside process_file
SplitAborts ==
    /\ stage = "split"
    /\ pc = "overflow"
    /\ collections' = CollectionLeft
    /\ MainReturns("split", Outcome("Abort", <<>>, NoError),
                   Outcome("Abort", <<>>, NoError))
    /\ UNCHANGED <<content, contextual_embeddings, handed,
                   chunkVars, limiterVars, enrichVars, textVars>>

\* rag.rs lines 41-48, context.rs lines 78-87: split_into_chunks has
\* returned, and contextualize_chunks is called on the chunks and the
\* content
Contextualize ==
    /\ stage = "split"
    /\ pc = "done"
    /\ stage' = "enrich"
    /\ source_document' =
           SourceDocument(estimate_token_count(content), Len(content))
    /\ batch' = result
    /\ position' = 1
    /\ contextualized_chunks' = <<>>
    /\ outcome' = Pending
    /\ failures' = <<>>
    /\ UNCHANGED <<content, collections, contextual_embeddings, handed, runs,
                   chunkVars, limiterVars, textVars>>

\* rag.rs line 49: contextualize_chunks has returned an error, and the ?
\* operator returns it
ContextualizeFails ==
    /\ stage = "enrich"
    /\ outcome.tag = "Err"
    /\ collections' = CollectionLeft
    /\ MainReturns("enrich", Outcome("Err", <<>>, QuestionMark(outcome.error)),
                   Outcome("Err", <<>>,
                           WithContext("Failed to process file",
                                       QuestionMark(outcome.error))))
    /\ UNCHANGED <<content, contextual_embeddings, handed,
                   chunkVars, limiterVars, enrichVars, textVars>>

\* rag.rs lines 46-59, embeddings.rs line 58: contextualize_chunks has
\* returned the enriched chunks, and get_contextual_embeddings is called
GetContextualEmbeddings ==
    /\ stage = "enrich"
    /\ outcome.tag = "Ok"
    /\ stage' = "embed"
    /\ contextual_embeddings' = <<>>
    /\ UNCHANGED <<content, collections, handed, runs,
                   chunkVars, limiterVars, enrichVars, textVars>>

\* embeddings.rs lines 60-63, 43-50: the embedding of the next enriched
\* chunk is asked for, for its contextualized text, and kept with the chunk
GetContextualEmbedding ==
    /\ stage = "embed"
    /\ Len(contextual_embeddings) < Len(outcome.value)
    /\ LET chunk == outcome.value[Len(contextual_embeddings) + 1]
       IN  contextual_embeddings' =
               Append(contextual_embeddings,
                      ContextualEmbedding(Embedding(chunk.contextualized_text),
                                          chunk))
    /\ UNCHANGED <<content, collections, stage, handed, runs,
                   chunkVars, limiterVars, enrichVars, textVars>>

\* embeddings.rs lines 45, 61, rag.rs line 60: the embedding call fails
GetContextualEmbeddingFails(e) ==
    /\ stage = "embed"
    /\ Len(contextual_embeddings) < Len(outcome.value)
    /\ collections' = CollectionLeft
    /\ LET error == QuestionMark(QuestionMark(QuestionMark(e)))
       IN  MainReturns("embed", Outcome("Err", <<>>, error),
                       Outcome("Err", <<>>,
                               WithContext("Failed to process file", error)))
    /\ UNCHANGED <<content, contextual_embeddings, handed,
                   chunkVars, limiterVars, enrichVars, textVars>>

\* rag.rs lines 63-80: the chunks and the embeddings store_chunks is given
ForStorage ==
    Handed(TRUE,
           [i \in 1..Len(contextual_embeddings) |->
               StorageChunk(contextual_embeddings[i])],
           [i \in 1..Len(contextual_embeddings) |->
               contextual_embeddings[i].embedding])

\* rag.rs lines 65-87, database.rs lines 99-137, main.rs line 71: the
\* points are stored, process_file returns and main goes on to the query
\* loop
StoreChunks ==
    /\ stage = "embed"
    /\ Len(contextual_embeddings) = Len(outcome.value)
    /\ handed' = ForStorage
    /\ collections' = [collections EXCEPT ![CollectionName] =
                           Points(ForStorage.chunks, ForStorage.embeddings)]
    /\ stage' = "query"
    /\ UNCHANGED <<content, contextual_embeddings, runs,
                   chunkVars, limiterVars, enrichVars, textVars>>

\* rag.rs lines 65-85, database.rs lines 129-134: the points are not
\* stored
StoreChunksFails(e) ==
    /\ stage = "embed"
    /\ Len(contextual_embeddings) = Len(outcome.value)
    /\ handed' = ForStorage
    /\ collections' = CollectionLeft
    /\ LET error == WithContext("Failed to upsert points in collection", e)
       IN  MainReturns("store", Outcome("Err", <<>>, error),
                       Outcome("Err", <<>>,
                               WithContext("Failed to process file", error)))
    /\ UNCHANGED <<content, contextual_embeddings,
                   chunkVars, limiterVars, enrichVars, textVars>>

\* main.rs lines 71-76: the query loop ends
QueryLoopEnds ==
    /\ stage = "query"
    /\ MainReturns("query",
                   Outcome(IF handed.called THEN "Ok" ELSE "None", <<>>, NoError),
                   Outcome("Ok", <<>>, NoError))
    /\ UNCHANGED <<content, collections, contextual_embeddings, handed,
                   chunkVars, limiterVars, enrichVars, textVars>>

\* main is run once more on the same file: a new process, with the
\* collections Qdrant has kept
MainAgain ==
    /\ stage = "exit"
    /\ Len(runs) < MaxRuns
    /\ stage' = "main"
    /\ contextual_embeddings' = <<>>
    /\ handed' = Handed(FALSE, <<>>, <<>>)
    /\ input' = <<>> /\ stack' = <<>> /\ pc' = "idle" /\ result' = <<>>
    /\ resplits' = 0
    /\ request_timestamps' = <<>> /\ token_counts' = <<>>
    /\ checks' = <<>> /\ external_calls' = <<>>
    /\ source_document' = SourceDocument(0, 0)
    /\ batch' = <<>> /\ position' = 1 /\ contextualized_chunks' = <<>>
    /\ outcome' = Outcome("None", <<>>, NoError)
    /\ failures' = <<>>
    /\ UNCHANGED <<content, collections, runs, max_rpm, max_tpm, mutex, clock,
                   callers, ticks, textVars>>

ProcessNext ==
    \/ CollectionExistsTrue
    \/ CollectionExistsFalse
    \/ \E e \in Errors : CollectionExistsFails(e)
    \/ ReadFile
    \/ \E e \in Errors : ReadFileFails(e)
    \/ CreateCollection
    \/ \E e \in Errors : CreateCollectionFails(e)
    \/ ChunkNext
    \/ SplitAborts
    \/ Contextualize
    \/ \E c \in Callers : GenerateContext(c)
    \/ \E c \in Callers : Prune(c)
    \/ \E c \in Callers : Admit(c)
    \/ \E c \in Callers, context \in Contexts : CallSucceeds(c, context)
    \/ \E c \in Callers, e \in Errors : CallFails(c, e)
    \/ \E c \in Callers : ReturnOk(c)
    \/ ContextualizeFails
    \/ GetContextualEmbeddings
    \/ GetContextualEmbedding
    \/ \E e \in Errors : GetContextualEmbeddingFails(e)
    \/ StoreChunks
    \/ \E e \in Errors : StoreChunksFails(e)
    \/ QueryLoopEnds
    \/ MainAgain

-----------------------------------------------------------------------------
(* Claims about process_file and main, checked under SpecProcess           *)

\* C29: every chunk handed to store_chunks has the document_id and the
\* start_position of the chunk the splitter returned at the same place, the
\* text "Context: ", the trimmed output of the generation call, a blank
\* line and the text of that chunk, and the estimate of that new text as
\* its token_count; the embedding handed over with it, and stored with it
\* in one point, is the one computed from its own new text.
C29_StoredChunkKeepsOrigin ==
    handed.called =>
        /\ Len(handed.chunks) = Len(result)
        /\ Len(handed.embeddings) = Len(result)
        /\ \A i \in 1..Len(handed.chunks) :
               LET chunk == handed.chunks[i]
               IN  /\ chunk.document_id = result[i].document_id
                   /\ chunk.start_position = result[i].start_position
                   /\ \E generated \in Contexts :
                          chunk.text = ContextLabel \o trim(generated)
                                       \o <<NL, NL>> \o result[i].text
                   /\ chunk.token_count = estimate_token_count(chunk.text)
                   /\ handed.embeddings[i] = Embedding(chunk.text)
        /\ stage = "query" =>
               LET points == collections[CollectionName]
               IN  /\ Len(points) = Len(handed.chunks)
                   /\ \A i \in 1..Len(points) :
                          /\ points[i].payload.text = handed.chunks[i].text
                          /\ points[i].payload.start_position =
                                 result[i].start_position
                          /\ points[i].payload.document_id = result[i].document_id
                          /\ points[i].vector =
                                 Embedding(handed.chunks[i].text).values

\* three chunks, not all from offset 0 and one with a generated context
\* that is not empty, were stored
C29_Witness ==
    /\ handed.called
    /\ stage = "query"
    /\ Len(handed.chunks) = 3
    /\ \E i \in 1..3 : handed.chunks[i].start_position > 0
    /\ \E i \in 1..3 : Len(handed.chunks[i].text) >
                            Len(ContextLabel) + 2 + Len(result[i].text)
    /\ handed.chunks[1].text # handed.chunks[2].text

\* the steps of process_file that come after create_collection
LaterSteps == {"split", "enrich", "embed", "store"}

\* C30: process_file creates the collection before it splits, enriches,
\* embeds and stores, and never deletes it: while those steps are made
\* the collection is there and empty; when one of them fails process_file
\* returns the error (the process dies when the splitter does not end) and
\* the collection stays, empty, so that collection_exists finds it and
\* every later run of main on the file makes no step of process_file,
\* goes to the query loop and leaves the collection empty.
C30_CollectionLeftBehind ==
    /\ pc # "idle" => CollectionName \in DOMAIN collections
    /\ stage \in {"split", "enrich", "embed"} =>
           /\ CollectionName \in DOMAIN collections
           /\ collections[CollectionName] = <<>>
    /\ \A r \in 1..Len(runs) :
           runs[r].at \in LaterSteps =>
               /\ runs[r].at # "split" =>
                      /\ runs[r].process_file.tag = "Err"
                      /\ runs[r].process_file.error \in
                             Errors \cup {WithContext("Failed to upsert points in collection", e) :
                                              e \in Errors}
               /\ CollectionName \in DOMAIN collections
               /\ collections[CollectionName] = <<>>
               /\ \A q \in (r + 1)..Len(runs) :
                      /\ runs[q].at \in {"main", "query"}
                      /\ runs[q].process_file.tag = "None"
               /\ r = Len(runs) =>
                      /\ stage \in {"exit", "main", "query"}
                      /\ ~handed.called \/ stage = "exit"

\* a run of main has failed at the embedding of a chunk, and the next run,
\* on the same file, has gone to the query loop over the empty collection
\* without calling process_file
C30_Witness ==
    /\ Len(runs) = 2
    /\ runs[1].at = "embed"
    /\ runs[1].process_file.tag = "Err"
    /\ runs[2].at = "query"
    /\ runs[2].process_file.tag = "None"
    /\ runs[2].returned.tag = "Ok"
    /\ content # <<>>
    /\ collections[CollectionName] = <<>>

-----------------------------------------------------------------------------
(* Initial states and specifications                                       *)

\* lines 156-163: RateLimiter::new
LimiterNew(rpm, tpm) ==
    /\ max_rpm = rpm
    /\ max_tpm = tpm
    /\ request_timestamps = <<>>
    /\ token_counts = <<>>

LimiterInit(n) ==
    /\ \E rpm \in RpmChoices, tpm \in TpmChoices : LimiterNew(rpm, tpm)
    /\ mutex = 0
    /\ clock = 0
    /\ callers = [c \in 1..n |-> IdleCaller]
    /\ checks = <<>>
    /\ external_calls = <<>>
    /\ ticks = 0

\* the splitter at rest
ChunkIdle ==
    /\ input = <<>>
    /\ stack = <<>>
    /\ pc = "idle"
    /\ result = <<>>
    /\ resplits = 0

\* context.rs line 31: the limiter of the program, at rest
LimiterIdle ==
    /\ LimiterNew(PROGRAM_MAX_RPM, PROGRAM_MAX_TPM)
    /\ mutex = 0
    /\ clock = 0
    /\ callers = [c \in {1} |-> IdleCaller]
    /\ checks = <<>>
    /\ external_calls = <<>>
    /\ ticks = 0

\* no function of texts is being applied
TextIdle ==
    /\ text_in = <<>>
    /\ estimated = <<>>
    /\ normalized = <<>>

\* main is not being run
ProcessIdle ==
    /\ content = <<>>
    /\ collections = <<>>
    /\ stage = "off"
    /\ contextual_embeddings = <<>>
    /\ handed = Handed(FALSE, <<>>, <<>>)
    /\ runs = <<>>

\* contextualize_chunks at rest
EnrichIdle ==
    /\ source_document = SourceDocument(0, 0)
    /\ batch = <<>>
    /\ position = 1
    /\ contextualized_chunks = <<>>
    /\ outcome = Outcome("None", <<>>, NoError)
    /\ failures = <<>>

ChunkInit ==
    /\ LimiterIdle
    /\ EnrichIdle
    /\ TextIdle
    /\ ProcessIdle
    /\ input \in Documents
    /\ stack = <<NewFrame(input, DocumentId, {})>>
    /\ pc = "run"
    /\ result = <<>>
    /\ resplits = 0

SpecChunk == ChunkInit /\ [][ChunkNext]_vars

\* one caller at a time, as contextualize_chunks makes its calls
SequentialInit ==
    LimiterInit(1) /\ ChunkIdle /\ EnrichIdle /\ TextIdle /\ ProcessIdle

SpecLimiter == SequentialInit /\ [][LimiterNext]_vars

\* one caller that calls the check again after every wait; no step that can
\* be taken is put off for ever
SpecRetry == SequentialInit /\ [][RetryNext]_vars /\ WF_vars(RetryNext)

\* two concurrent callers of one limiter
SharedInit ==
    LimiterInit(2) /\ ChunkIdle /\ EnrichIdle /\ TextIdle /\ ProcessIdle

SpecShared == SharedInit /\ [][LimiterNext]_vars

\* lines 78-87: contextualize_chunks is called on a batch and a source
\* document, with the limiter of the program
EnrichInit ==
    /\ LimiterIdle
    /\ ChunkIdle
    /\ TextIdle
    /\ ProcessIdle
    /\ source_document \in SourceDocuments
    /\ batch \in Batches
    /\ position = 1
    /\ contextualized_chunks = <<>>
    /\ outcome = Pending
    /\ failures = <<>>

SpecEnrich == EnrichInit /\ [][EnrichNext]_vars

\* a function of texts is about to be applied to a text
TextInit ==
    /\ LimiterIdle
    /\ ChunkIdle
    /\ EnrichIdle
    /\ ProcessIdle
    /\ text_in \in Texts
    /\ estimated = <<>>
    /\ normalized = <<>>

SpecText == TextInit /\ [][TextNext]_vars

\* main.rs lines 58-59: main is run on a file, with no collection in Qdrant
ProcessInit ==
    /\ LimiterIdle
    /\ ChunkIdle
    /\ EnrichIdle
    /\ TextIdle
    /\ content \in ProcessDocuments
    /\ collections = <<>>
    /\ stage = "main"
    /\ contextual_embeddings = <<>>
    /\ handed = Handed(FALSE, <<>>, <<>>)
    /\ runs = <<>>

SpecProcess == ProcessInit /\ [][ProcessNext]_vars

====
